---------------------------- MODULE Spec2Model ----------------------------
(***************************************************************************)
(* Model of the simulated broker worker (simBrokerWorker, src/broker.go):   *)
(* request intake with latency, order state, tick and candle matching, TIF  *)
(* expiry and the release of buffered events on the output channel.         *)
(*                                                                          *)
(* Time.  A time.Time is an integer count of clock units since Go's zero    *)
(* time (0001-01-01 00:00:00, a midnight); there are UnitsPerSecond units   *)
(* in a second, so Unix() of a time is the time divided by UnitsPerSecond   *)
(* (up to a constant number of whole seconds, which no comparison sees).    *)
(***************************************************************************)
EXTENDS Integers, Sequences, FiniteSets, TLC

(***************************************************************************)
(* Bounds of the model.                                                     *)
(***************************************************************************)
UnitsPerSecond == 2
MaxRequests == 2
MaxMd == 3
MaxSignals == 4
MaxNotified == 4
MaxRtTime == 3
MaxPeriods == 2
MaxHistory == 2
MaxFills == 4
MaxHandlers == 3
Before == 1
After == 1
MaxLag == 1
CandleSpan == 1

Second == UnitsPerSecond
Minute == 60 * Second
Hour == 60 * Minute
Day == 24 * Hour
TenYears == 3652 * Day
Midnight == Day

\* time.Duration(n) * time.Millisecond, in clock units
Millis(n) == (n * UnitsPerSecond) \div 1000

\* time.Time.Unix(): whole seconds
Unix(t) == t \div UnitsPerSecond

\* the instants market data may carry: a window around the first midnight
Times == (Midnight - Before)..(Midnight + After)

OrderIds == {"a", "b"}
Delays == {500}

\* math.NaN(): every comparison with it is false
NaN == -1000
IsNaN(x) == x = NaN
FLt(x, y) == ~IsNaN(x) /\ ~IsNaN(y) /\ x < y
FGt(x, y) == ~IsNaN(x) /\ ~IsNaN(y) /\ x > y
FEq(x, y) == ~IsNaN(x) /\ ~IsNaN(y) /\ x = y
FLe(x, y) == ~IsNaN(x) /\ ~IsNaN(y) /\ x <= y
FGe(x, y) == ~IsNaN(x) /\ ~IsNaN(y) /\ x >= y

\* exchange schedule of the instrument (Ticker.Exchange), in units since midnight
MarketOpenTime == 9 * Hour + 30 * Minute
MarketCloseTime == 16 * Hour

VARIABLES
    btm,                \* the market-data producer (BTM) feeding the run
    calls,              \* the calls of simBrokerWorker.notify in progress
    checkExecutionsOnTicks, \* SimBroker.checkExecutionsOnTicks: tick or candle run
    delay,              \* simBrokerWorker.delay (ms)
    strictLimitOrders,  \* simBrokerWorker.strictLimitOrders
    orders,             \* simBrokerWorker.orders: id -> simBrokerOrder
    generatedEvents,    \* simBrokerWorker.generatedEvents
    requestEvents,      \* simBrokerWorker.requestEvents
    events,             \* everything sent on simBrokerWorker.events, in order
    errors,             \* everything sent on simBrokerWorker.errChan
    lastTickTime,       \* simBrokerWorker.lastTickTime
    lastCandleTime,     \* simBrokerWorker.lastCandleTime
    panicked,           \* a panic() was raised: the run is over
    nextGen,            \* history: number of events created so far
    log,                \* history: one entry per request processed
    mdlog,              \* history: one entry per market-data event handled
    nReq,               \* history: number of requests passed to notify
    nMd,                \* history: number of market-data events passed to notify
    waitingConfirmation, \* BasicStrategy.waitingConfirmation: set of tokens
    waitingN,           \* BasicStrategy.waitingN
    currentTrade,       \* BasicStrategy.currentTrade: id -> state of its orders
    mostRecentTime,     \* BasicStrategy.mostRecentTime
    chEvents,           \* requests sent on BasicStrategy.ch.events, not yet answered
    chErrors,           \* everything sent on BasicStrategy.ch.errors
    nPeriods,           \* BasicStrategy.nPeriods
    Ticks,              \* BasicStrategy.Ticks
    Candles,            \* BasicStrategy.Candles
    lastCandleOpen,     \* BasicStrategy.lastCandleOpen
    lastCandleOpenTime, \* BasicStrategy.lastCandleOpenTime
    strategyPanicked,   \* a panic() was raised in the strategy runtime
    tradeType,          \* BasicStrategy.currentTrade.Type
    tradeQty,           \* BasicStrategy.currentTrade.Qty
    tradeId,            \* which Trade object BasicStrategy.currentTrade points to
    closedTrades,       \* BasicStrategy.closedTrades, as the ids of the trades
    chPortfolio,        \* everything sent on BasicStrategy.ch.portfolio
    shutDownReturned,   \* simBrokerWorker.shutDown was called and has returned
    mdChan,             \* BasicStrategy.mdChan: the number of events it holds
    mut,                \* BasicStrategy.mut: 0, or the handler that holds it
    handlers,           \* the handlers started by notify, in the order of the
                        \* calls: the event and where the handler is
    called,             \* history: the user callbacks the last handler invoked
    notified            \* history: how many events were passed to
                        \* BasicStrategy.notify, and the latest of their times

strategyVars == <<waitingConfirmation, waitingN, currentTrade, mostRecentTime,
                  chEvents, chErrors>>

runtimeVars == <<nPeriods, Ticks, Candles, lastCandleOpen, lastCandleOpenTime,
                 strategyPanicked, tradeType, tradeQty, tradeId, closedTrades,
                 chPortfolio, shutDownReturned, mdChan, mut, handlers, called,
                 notified>>

vars == <<btm, calls, checkExecutionsOnTicks, delay, strictLimitOrders, orders, generatedEvents, requestEvents,
          events, errors, lastTickTime, lastCandleTime, panicked, nextGen,
          log, mdlog, nReq, nMd, strategyVars, runtimeVars>>

(***************************************************************************)
(* Orders, events, requests.                                                *)
(***************************************************************************)
BrokerEventNames == {"OrderConfirmationEvent", "OrderRejectedEvent",
                     "OrderCancelEvent", "OrderCancelRejectEvent",
                     "OrderReplacedEvent", "OrderReplaceRejectEvent",
                     "OrderFillEvent"}
MdEventNames == {"NewTickEvent", "CandleOpenEvent", "CandleCloseEvent"}

\* an event: BaseEvent time plus the payload the worker reads; gen is the
\* creation index of the event (history, not program state)
Ev(name, time, ordId, price, qty, reason) ==
    [name |-> name, time |-> time, OrdId |-> ordId, Price |-> price,
     Qty |-> qty, Reason |-> reason, gen |-> 0]

MdEv(name, time) == Ev(name, time, "", NaN, 0, "")

NoOrder == [Id |-> "", Side |-> "", Qty |-> 0, Type |-> "", Price |-> NaN,
            Tif |-> "", Time |-> 0]

NewOrderEvent(o, t) ==
    [name |-> "NewOrderEvent", time |-> t, OrdId |-> o.Id, NewPrice |-> NaN,
     LinkedOrder |-> o]
OrderCancelRequestEvent(id, t) ==
    [name |-> "OrderCancelRequestEvent", time |-> t, OrdId |-> id,
     NewPrice |-> NaN, LinkedOrder |-> NoOrder]
OrderReplaceRequestEvent(id, p, t) ==
    [name |-> "OrderReplaceRequestEvent", time |-> t, OrdId |-> id,
     NewPrice |-> p, LinkedOrder |-> NoOrder]

\* Order.isValid(): quantity, price and TIF checks of the order model
PriceBearing(type) == type \in {"LimitOrder", "StopOrder", "LimitOnOpen", "LimitOnClose"}
AuctionType(type) == type \in {"LimitOnOpen", "LimitOnClose", "MarketOnOpen", "MarketOnClose"}
isValid(o) ==
    /\ o.Qty > 0
    /\ o.Side \in {"B", "S"}
    /\ PriceBearing(o.Type) => (~IsNaN(o.Price) /\ o.Price > 0)
    /\ o.Tif = "AuctionTIF" => AuctionType(o.Type)

simBrokerOrder(o, state, execQty, price, upd) ==
    [Id |-> o.Id, Side |-> o.Side, Qty |-> o.Qty, Type |-> o.Type,
     Price |-> o.Price, Tif |-> o.Tif, Time |-> o.Time,
     BrokerState |-> state, StateUpdTime |-> upd, BrokerExecQty |-> execQty,
     BrokerPrice |-> price]

getExpirationTime(o) ==
    CASE o.Tif = "GTCTIF" -> o.Time + TenYears
      [] o.Tif = "DayTIF" -> ((o.Time \div Day) + 1) * Day
      [] o.Tif = "AuctionTIF" /\ o.Type \in {"MarketOnOpen", "LimitOnOpen"} ->
            (o.Time \div Day) * Day + MarketOpenTime + 3 * Minute
      [] o.Tif = "AuctionTIF" /\ o.Type \in {"MarketOnClose", "LimitOnClose"} ->
            (o.Time \div Day) * Day + MarketCloseTime + 3 * Second
      [] OTHER -> NaN

\* getExpirationTime panics for an auction TIF on a non-auction type or an unknown TIF
expirationPanics(o) ==
    ~ \/ o.Tif \in {"GTCTIF", "DayTIF"}
      \/ o.Tif = "AuctionTIF" /\ AuctionType(o.Type)

\* a variant for which no order ever expires
isExpiredNever(o, t) == FALSE
isExpired(o, t) == t > getExpirationTime(o)

isActive(o) == o.BrokerState \in {"ConfirmedOrder", "PartialFilledOrder"}

(***************************************************************************)
(* The worker as a value: the handlers below are functions from worker to   *)
(* worker, composed as the code composes its calls.                         *)
(***************************************************************************)
Worker ==
    [delay |-> delay, strictLimitOrders |-> strictLimitOrders,
     orders |-> orders, generatedEvents |-> generatedEvents,
     requestEvents |-> requestEvents, events |-> events, errors |-> errors,
     lastTickTime |-> lastTickTime, lastCandleTime |-> lastCandleTime,
     panicked |-> panicked, nextGen |-> nextGen, log |-> log, mdlog |-> mdlog]

Panic(b) == [b EXCEPT !.panicked = TRUE]

newError(b, err) == [b EXCEPT !.errors = Append(@, err)]

RECURSIVE newErrors(_, _)
newErrors(b, errs) ==
    IF errs = <<>> THEN b ELSE newErrors(newError(b, Head(errs)), Tail(errs))

\* a fresh event gets the next creation index
Stamp(b, e) == [e EXCEPT !.gen = b.nextGen + 1]

\* a variant that is not stable: e goes before the events of its own second
RECURSIVE SortInsertUnstable(_, _)
SortInsertUnstable(s, e) ==
    IF s = <<>> THEN <<e>>
    ELSE IF Unix(e.time) <= Unix(s[Len(s)].time)
         THEN Append(SortInsertUnstable(SubSeq(s, 1, Len(s) - 1), e), s[Len(s)])
         ELSE Append(s, e)

\* eventArray.sort: stable, by Unix seconds
RECURSIVE SortInsert(_, _)
SortInsert(s, e) ==
    IF s = <<>> THEN <<e>>
    ELSE IF Unix(e.time) < Unix(s[Len(s)].time)
         THEN Append(SortInsert(SubSeq(s, 1, Len(s) - 1), e), s[Len(s)])
         ELSE Append(s, e)

RECURSIVE eventArraySort(_)
eventArraySort(t) ==
    IF t = <<>> THEN <<>>
    ELSE SortInsert(eventArraySort(SubSeq(t, 1, Len(t) - 1)), t[Len(t)])

\* a variant that adds the delay once
genTimeRoundTripOnce(b, baseTime) == baseTime + Millis(b.delay)
genTimeRoundTrip(b, baseTime) == baseTime + Millis(b.delay * 2)

genTimeSingleTrip(b, baseTime) == baseTime + Millis(b.delay)

\* a variant that queues the request twice
addRequestEventTwice(b, e) == [b EXCEPT !.requestEvents = Append(Append(@, e), e)]

addRequestEvent(b, e) == [b EXCEPT !.requestEvents = Append(@, e)]

validateOrderForExecution(order, expectedType) ==
    IF ~isValid(order) THEN "ErrInvalidOrder"
    ELSE IF order.Type # expectedType THEN "ErrUnexpectedOrderType"
    ELSE IF ~isActive(order) THEN "ErrUnexpectedOrderState"
    ELSE IF order.Qty - order.BrokerExecQty <= 0 THEN "ErrLvsQty"
    ELSE ""

\* the panics of addBrokerEvent: an event for an order missing from the map
\* ("Confirmation of not existing order", "Can't find order"), a fill larger
\* than the leaves quantity ("Large qty")
addBrokerEventPanics(b, e) ==
    /\ e.name \in {"OrderConfirmationEvent", "OrderCancelEvent", "OrderReplacedEvent",
                   "OrderFillEvent", "OrderRejectedEvent"}
    /\ \/ e.OrdId \notin DOMAIN b.orders
       \/ /\ e.name = "OrderFillEvent"
          /\ e.Qty > b.orders[e.OrdId].Qty - b.orders[e.OrdId].BrokerExecQty

\* the switch of addBrokerEvent: what event e does to the order it names
applyBrokerEvent(ord, e) ==
    CASE e.name = "OrderConfirmationEvent" ->
            [ord EXCEPT !.BrokerState = "ConfirmedOrder", !.StateUpdTime = e.time]
      [] e.name = "OrderCancelEvent" ->
            [ord EXCEPT !.BrokerState = "CanceledOrder", !.StateUpdTime = e.time]
      [] e.name = "OrderReplacedEvent" ->
            [ord EXCEPT !.StateUpdTime = e.time, !.BrokerPrice = e.Price]
      [] e.name = "OrderFillEvent" ->
            [ord EXCEPT !.BrokerState = IF e.Qty = ord.Qty - ord.BrokerExecQty
                                        THEN "FilledOrder" ELSE "PartialFilledOrder",
                        !.BrokerExecQty = @ + e.Qty]
      [] e.name = "OrderRejectedEvent" ->
            [ord EXCEPT !.BrokerState = IF @ # "ConfirmedOrder" THEN "RejectedOrder" ELSE @,
                        !.StateUpdTime = e.time]
      [] OTHER -> ord

addBrokerEvent(b, e) ==
    IF b.panicked THEN b
    ELSE IF addBrokerEventPanics(b, e) THEN Panic(b)
    ELSE [b EXCEPT !.orders = [id \in DOMAIN @ |->
                                  IF id = e.OrdId THEN applyBrokerEvent(@[id], e) ELSE @[id]],
                   !.generatedEvents = Append(@, Stamp(b, e)),
                   !.nextGen = @ + 1]

RECURSIVE addBrokerEvents(_, _)
addBrokerEvents(b, es) ==
    IF es = <<>> THEN b ELSE addBrokerEvents(addBrokerEvent(b, Head(es)), Tail(es))

(***************************************************************************)
(* Request handlers.                                                        *)
(***************************************************************************)
\* the order map after onNewOrder installed (or not) the order of request e
installOrder(b, e, t) ==
    IF ~isValid(e.LinkedOrder)
    THEN (e.OrdId :> simBrokerOrder(e.LinkedOrder, "RejectedOrder", 0, 0, t)) @@ b.orders
    ELSE IF e.OrdId \in DOMAIN b.orders THEN b.orders
    ELSE (e.OrdId :> simBrokerOrder(e.LinkedOrder, "NewOrder", 0, e.LinkedOrder.Price, t)) @@ b.orders

\* a variant without the test for an id the worker already knows
newOrderResponseAnyId(b, e, t) ==
    IF ~isValid(e.LinkedOrder)
    THEN Ev("OrderRejectedEvent", t, e.OrdId, NaN, 0, "Order is not valid")
    ELSE Ev("OrderConfirmationEvent", t, e.OrdId, NaN, 0, "")

\* the event onNewOrder answers request e with
newOrderResponse(b, e, t) ==
    IF ~isValid(e.LinkedOrder)
    THEN Ev("OrderRejectedEvent", t, e.OrdId, NaN, 0, "Order is not valid")
    ELSE IF e.OrdId \in DOMAIN b.orders
    THEN Ev("OrderRejectedEvent", t, e.OrdId, NaN, 0,
            "Order with this ID already exists on broker side")
    ELSE Ev("OrderConfirmationEvent", t, e.OrdId, NaN, 0, "")

onNewOrder(b, e) ==
    addBrokerEvent([b EXCEPT !.orders = installOrder(b, e, genTimeRoundTrip(b, e.time))],
                   newOrderResponse(b, e, genTimeRoundTrip(b, e.time)))

\* a variant without the test for an order that is already filled
rejectReasonButFilled(b, e) ==
    IF e.OrdId \notin DOMAIN b.orders THEN "Broker can't find order"
    ELSE IF b.orders[e.OrdId].BrokerState = "CanceledOrder" THEN "Order is already canceled"
    ELSE IF b.orders[e.OrdId].BrokerState = "NewOrder" THEN "Order is not confirmed yet"
    ELSE ""

\* the precondition checks shared by onCancelRequest and onReplaceRequest:
\* the reason of the reject, "" when the request passes them
rejectReason(b, e) ==
    IF e.OrdId \notin DOMAIN b.orders THEN "Broker can't find order"
    ELSE IF b.orders[e.OrdId].BrokerState = "CanceledOrder" THEN "Order is already canceled"
    ELSE IF b.orders[e.OrdId].BrokerState = "NewOrder" THEN "Order is not confirmed yet"
    ELSE IF b.orders[e.OrdId].BrokerState = "FilledOrder" THEN "Order is already filled"
    ELSE ""

cancelResponse(e, reason, newEvTime) ==
    IF reason # "" THEN Ev("OrderCancelRejectEvent", newEvTime, e.OrdId, NaN, 0, reason)
    ELSE Ev("OrderCancelEvent", newEvTime, e.OrdId, NaN, 0, "")

onCancelRequest(b, e) ==
    addBrokerEvent(b, cancelResponse(e, rejectReason(b, e), genTimeRoundTrip(b, e.time)))

\* a variant that only looks at the new price
replaceResponseAnyState(e, reason, newEvTime) ==
    IF IsNaN(e.NewPrice) \/ e.NewPrice = 0
    THEN Ev("OrderReplaceRejectEvent", newEvTime, e.OrdId, NaN, 0, "Replace price is not valid")
    ELSE Ev("OrderReplacedEvent", newEvTime, e.OrdId, e.NewPrice, 0, "")

replaceResponse(e, reason, newEvTime) ==
    IF reason # "" THEN Ev("OrderReplaceRejectEvent", newEvTime, e.OrdId, NaN, 0, reason)
    ELSE IF IsNaN(e.NewPrice) \/ e.NewPrice = 0
    THEN Ev("OrderReplaceRejectEvent", newEvTime, e.OrdId, NaN, 0, "Replace price is not valid")
    ELSE Ev("OrderReplacedEvent", newEvTime, e.OrdId, e.NewPrice, 0, "")

onReplaceRequest(b, e) ==
    addBrokerEvent(b, replaceResponse(e, rejectReason(b, e), genTimeRoundTrip(b, e.time)))

\* the switch of proceedStoredRequests on the request type
dispatchRequest(b, e) ==
    CASE e.name = "NewOrderEvent" -> onNewOrder(b, e)
      [] e.name = "OrderCancelRequestEvent" -> onCancelRequest(b, e)
      [] e.name = "OrderReplaceRequestEvent" -> onReplaceRequest(b, e)
      [] OTHER -> Panic(b)

\* history: what processing request e did, on the k-th market-data event handled,
\* whose time is `at`
StateOf(b, id) == IF id \in DOMAIN b.orders THEN b.orders[id].BrokerState ELSE "none"
LogEntry(b0, b1, e, at) ==
    [req |-> e, at |-> at, k |-> Len(b0.mdlog) + 1,
     resp |-> SubSeq(b1.generatedEvents, Len(b0.generatedEvents) + 1, Len(b1.generatedEvents)),
     pre |-> StateOf(b0, e.OrdId),
     was |-> IF e.OrdId \in DOMAIN b0.orders THEN b0.orders[e.OrdId] ELSE simBrokerOrder(NoOrder, "none", 0, NaN, 0),
     post |-> IF e.OrdId \in DOMAIN b1.orders THEN b1.orders[e.OrdId] ELSE simBrokerOrder(NoOrder, "none", 0, NaN, 0)]

\* a variant that lets a request through at the very time it arrives
visibleOnArrival(b, e, beforeTime) == genTimeSingleTrip(b, e.time) <= beforeTime
visible(b, e, beforeTime) == genTimeSingleTrip(b, e.time) < beforeTime

Logged(b0, b1, e, at) == [b1 EXCEPT !.log = Append(@, LogEntry(b0, b1, e, at))]

RECURSIVE requestLoop(_, _, _, _)
requestLoop(b, es, eventsLeft, beforeTime) ==
    IF b.panicked THEN b
    ELSE IF es = <<>> THEN [b EXCEPT !.requestEvents = eventsLeft]
    ELSE IF visible(b, Head(es), beforeTime)
         THEN requestLoop(Logged(b, dispatchRequest(b, Head(es)), Head(es), beforeTime),
                          Tail(es), eventsLeft, beforeTime)
         ELSE requestLoop(b, Tail(es), Append(eventsLeft, Head(es)), beforeTime)

proceedStoredRequests(b, beforeTime) ==
    IF Len(b.requestEvents) = 0 THEN b
    ELSE requestLoop(b, eventArraySort(b.requestEvents), <<>>, beforeTime)


(***************************************************************************)
(* Ticks.                                                                   *)
(***************************************************************************)
Tick(dt, last, lastSize, bid, bidSize, ask, askSize, opening, closing) ==
    [Datetime |-> dt, LastPrice |-> last, LastSize |-> lastSize,
     BidPrice |-> bid, BidSize |-> bidSize, AskPrice |-> ask, AskSize |-> askSize,
     IsOpening |-> opening, IsClosing |-> closing]

HasTrade(tick) == ~IsNaN(tick.LastPrice)
HasQuote(tick) == ~IsNaN(tick.BidPrice) /\ ~IsNaN(tick.AskPrice)
TickIsValid(tick) ==
    /\ HasTrade(tick) \/ HasQuote(tick)
    /\ HasTrade(tick) => (tick.LastPrice # 0 /\ tick.LastSize # 0)
    /\ HasQuote(tick) => (tick.BidPrice # 0 /\ tick.AskPrice # 0 /\ tick.BidSize # 0 /\ tick.AskSize # 0)

\* what an executor returns: the events it built and the errors it reported
Out(evs, errs) == [ev |-> evs, err |-> errs]
None == Out(<<>>, <<>>)
Fail(err) == Out(<<>>, <<err>>)
Fill(time, o, price, qty) == Ev("OrderFillEvent", time, o.Id, price, qty, "")
Cancel(time, o) == Ev("OrderCancelEvent", time, o.Id, NaN, 0, "")

fillOnTickLimitAuction(b, order, tick) ==
    LET t == genTimeRoundTrip(b, tick.Datetime)
        execQty == IF order.Qty > tick.LastSize THEN tick.LastSize ELSE order.Qty
    IN  IF order.Side \notin {"S", "B"} THEN Fail("ErrUnknownOrderSide")
        ELSE IF order.Side = "S" /\ FLt(tick.LastPrice, order.BrokerPrice) THEN Out(<<Cancel(t, order)>>, <<>>)
        ELSE IF order.Side = "B" /\ FGt(tick.LastPrice, order.BrokerPrice) THEN Out(<<Cancel(t, order)>>, <<>>)
        ELSE IF FEq(tick.LastPrice, order.BrokerPrice) /\ b.strictLimitOrders THEN Out(<<Cancel(t, order)>>, <<>>)
        ELSE IF execQty < order.Qty
             THEN Out(<<Fill(t, order, tick.LastPrice, execQty), Cancel(t, order)>>, <<>>)
             ELSE Out(<<Fill(t, order, tick.LastPrice, execQty)>>, <<>>)

fillOnTickLOO(b, order, tick) ==
    LET err == validateOrderForExecution(order, "LimitOnOpen")
    IN  IF err # "" THEN Fail(err)
        ELSE IF ~tick.IsOpening THEN None
        ELSE fillOnTickLimitAuction(b, order, tick)

fillOnTickLOC(b, order, tick) ==
    LET err == validateOrderForExecution(order, "LimitOnClose")
    IN  IF err # "" THEN Fail(err)
        ELSE IF ~tick.IsClosing THEN None
        ELSE fillOnTickLimitAuction(b, order, tick)

fillOnTickMOO(b, order, tick) ==
    LET err == validateOrderForExecution(order, "MarketOnOpen")
    IN  IF ~tick.IsOpening THEN None
        ELSE IF ~HasTrade(tick) THEN None
        ELSE IF err # "" THEN Fail(err)
        ELSE Out(<<Fill(genTimeRoundTrip(b, tick.Datetime), order, tick.LastPrice, order.Qty)>>, <<>>)

fillOnTickMOC(b, order, tick) ==
    LET err == validateOrderForExecution(order, "MarketOnClose")
    IN  IF ~tick.IsClosing THEN None
        ELSE IF ~HasTrade(tick) THEN None
        ELSE IF err # "" THEN Fail(err)
        ELSE Out(<<Fill(genTimeRoundTrip(b, tick.Datetime), order, tick.LastPrice, order.Qty)>>, <<>>)

\* a variant that fills a limit order at the price of the trade
fillOnTickLimitAtLast(b, order, tick) ==
    LET lvsQty == order.Qty - order.BrokerExecQty
        qty == IF tick.LastSize < lvsQty THEN tick.LastSize ELSE lvsQty
        fillE == Fill(genTimeRoundTrip(b, tick.Datetime), order, tick.LastPrice, qty)
    IN  IF ~HasTrade(tick) THEN None
        ELSE CASE order.Side = "S" ->
                    IF FGt(tick.LastPrice, order.BrokerPrice) THEN Out(<<fillE>>, <<>>)
                    ELSE IF FEq(tick.LastPrice, order.BrokerPrice) /\ ~b.strictLimitOrders
                         THEN Out(<<fillE>>, <<>>)
                         ELSE None
               [] OTHER ->
                    IF FLt(tick.LastPrice, order.BrokerPrice) THEN Out(<<fillE>>, <<>>)
                    ELSE IF FEq(tick.LastPrice, order.BrokerPrice) /\ ~b.strictLimitOrders
                         THEN Out(<<fillE>>, <<>>)
                         ELSE None
fillOnTickLimit(b, order, tick) ==
    LET err == validateOrderForExecution(order, "LimitOrder")
        lvsQty == order.Qty - order.BrokerExecQty
        qty == IF tick.LastSize < lvsQty THEN tick.LastSize ELSE lvsQty
        fillE == Fill(genTimeRoundTrip(b, tick.Datetime), order, order.BrokerPrice, qty)
    IN  IF ~HasTrade(tick) THEN None
        ELSE IF err # "" THEN Fail(err)
        ELSE CASE order.Side = "S" ->
                    IF FGt(tick.LastPrice, order.BrokerPrice) THEN Out(<<fillE>>, <<>>)
                    ELSE IF FEq(tick.LastPrice, order.BrokerPrice) /\ ~b.strictLimitOrders
                         THEN Out(<<fillE>>, <<>>)
                         ELSE None
               [] order.Side = "B" ->
                    IF FLt(tick.LastPrice, order.BrokerPrice) THEN Out(<<fillE>>, <<>>)
                    ELSE IF FEq(tick.LastPrice, order.BrokerPrice) /\ ~b.strictLimitOrders
                         THEN Out(<<fillE>>, <<>>)
                         ELSE None
               [] OTHER -> Fail("unknown side")

fillOnTickStop(b, order, tick) ==
    LET err == validateOrderForExecution(order, "StopOrder")
        lvsQty == order.Qty - order.BrokerExecQty
        t == genTimeRoundTrip(b, tick.Datetime)
        capped == IF tick.LastSize < lvsQty THEN tick.LastSize ELSE lvsQty
    IN  IF ~HasTrade(tick) THEN None
        ELSE IF err # "" THEN Fail(err)
        ELSE CASE order.Side = "S" ->
                    IF FGt(tick.LastPrice, order.BrokerPrice) THEN None
                    ELSE IF HasQuote(tick) THEN Out(<<Fill(t, order, tick.BidPrice, lvsQty)>>, <<>>)
                    ELSE Out(<<Fill(t, order, tick.LastPrice, capped)>>, <<>>)
               [] order.Side = "B" ->
                    IF FLt(tick.LastPrice, order.BrokerPrice) THEN None
                    ELSE IF HasQuote(tick) THEN Out(<<Fill(t, order, tick.AskPrice, lvsQty)>>, <<>>)
                    ELSE Out(<<Fill(t, order, tick.LastPrice, capped)>>, <<>>)
               [] OTHER -> Fail("ErrUnknownOrderSide")

fillOnTickMarket(b, order, tick) ==
    LET lvsQty == order.Qty - order.BrokerExecQty
        t == genTimeRoundTrip(b, tick.Datetime)
    IN  IF order.Type # "MarketOrder" THEN Fail("ErrUnexpectedOrderType")
        ELSE IF ~isValid(order) THEN Fail("ErrInvalidOrder")
        ELSE IF HasQuote(tick)
        THEN IF order.Side = "B"
             THEN Out(<<Fill(t, order, tick.AskPrice,
                             IF lvsQty > tick.AskSize THEN tick.AskSize ELSE lvsQty)>>, <<>>)
             ELSE IF order.Side # "S" THEN Fail("unknown order side")
             ELSE Out(<<Fill(t, order, tick.BidPrice,
                             IF lvsQty > tick.BidSize THEN tick.BidSize ELSE lvsQty)>>, <<>>)
        ELSE IF ~HasTrade(tick) THEN Fail("tick doesn't contain trade")
        ELSE Out(<<Fill(t, order, tick.LastPrice, order.Qty)>>, <<>>)

findExecutionsOnTick(b, orderSim, tick) ==
    LET err == validateOrderForExecution(orderSim, orderSim.Type)
    IN  IF err # "" THEN Fail(err)
        ELSE CASE orderSim.Type = "MarketOrder" -> fillOnTickMarket(b, orderSim, tick)
               [] orderSim.Type = "LimitOrder" -> fillOnTickLimit(b, orderSim, tick)
               [] orderSim.Type = "StopOrder" -> fillOnTickStop(b, orderSim, tick)
               [] orderSim.Type = "LimitOnClose" -> fillOnTickLOC(b, orderSim, tick)
               [] orderSim.Type = "LimitOnOpen" -> fillOnTickLOO(b, orderSim, tick)
               [] orderSim.Type = "MarketOnOpen" -> fillOnTickMOO(b, orderSim, tick)
               [] orderSim.Type = "MarketOnClose" -> fillOnTickMOC(b, orderSim, tick)
               [] OTHER -> Fail("ErrUnknownOrderType")

\* cancelByTif: the worker after the call and whether the order was canceled
cancelByTif(b, o, t) ==
    IF expirationPanics(o) THEN [b |-> Panic(b), cancel |-> FALSE]
    ELSE IF ~isExpired(o, t) THEN [b |-> b, cancel |-> FALSE]
    ELSE [b |-> addBrokerEvent(b, Cancel(getExpirationTime(o), o)), cancel |-> TRUE]


(***************************************************************************)
(* Candles.                                                                 *)
(***************************************************************************)
Candle(dt, o, h, l, c, opening, closing) ==
    [Datetime |-> dt, Open |-> o, High |-> h, Low |-> l, Close |-> c,
     isOpening |-> opening, isClosing |-> closing]

HourOf(t) == (t % Day) \div Hour
MinuteOf(t) == ((t % Day) % Hour) \div Minute

\* Candle.isOpening(), Candle.isClosingForTimeFrame(tf): session markers of the candle
candleIsOpening(c) == c.isOpening
isClosingForTimeFrame(c, tf) == c.isClosing

LeavesFill(e, o, price) == Out(<<Fill(e.time, o, price, o.Qty - o.BrokerExecQty)>>, <<>>)
OneOrNone(e, o, fillPrice) == IF IsNaN(fillPrice) THEN None ELSE LeavesFill(e, o, fillPrice)

fillOnCandleCloseLimit(b, o, e) ==
    LET c == e.Candle
        daily == e.TimeFrame = "D" \/ e.TimeFrame = "W" \/ (e.TimeFrame # "D" /\ candleIsOpening(c))
        fillPrice ==
            IF ~(o.StateUpdTime < c.Datetime)
            THEN IF \/ o.Side = "B" /\ FLt(c.Low, c.Open) /\ FLt(c.Low, o.BrokerPrice)
                    \/ o.Side = "S" /\ FGt(c.High, c.Open) /\ FGt(c.High, o.BrokerPrice)
                 THEN o.BrokerPrice ELSE NaN
            ELSE CASE o.Side = "B" ->
                        IF FLt(c.Low, o.BrokerPrice) \/ (FEq(c.Low, o.BrokerPrice) /\ ~b.strictLimitOrders)
                        THEN IF daily /\ FLt(c.Open, o.BrokerPrice) THEN c.Open ELSE o.BrokerPrice
                        ELSE NaN
                   [] o.Side = "S" ->
                        IF FGt(c.High, o.BrokerPrice) \/ (FEq(c.High, o.BrokerPrice) /\ ~b.strictLimitOrders)
                        THEN IF daily /\ FGt(c.Open, o.BrokerPrice) THEN c.Open ELSE o.BrokerPrice
                        ELSE NaN
                   [] OTHER -> NaN
    IN  OneOrNone(e, o, fillPrice)

fillOnCandleCloseMOC(b, o, e) ==
    IF ~isClosingForTimeFrame(e.Candle, e.TimeFrame) THEN None
    ELSE LeavesFill(e, o, e.Candle.Close)

fillOnCandleCloseLOC(b, o, e) ==
    LET cl == e.Candle.Close
        hit == \/ o.Side = "B" /\ (FLt(cl, o.BrokerPrice) \/ (FEq(cl, o.BrokerPrice) /\ ~b.strictLimitOrders))
               \/ o.Side = "S" /\ (FGt(cl, o.BrokerPrice) \/ (FEq(cl, o.BrokerPrice) /\ ~b.strictLimitOrders))
    IN  IF ~isClosingForTimeFrame(e.Candle, e.TimeFrame) THEN None
        ELSE IF hit THEN LeavesFill(e, o, cl)
        ELSE Out(<<Cancel(e.time, o)>>, <<>>)

fillOnCandleCloseStop(b, o, e) ==
    LET c == e.Candle
        fillPrice ==
            IF ~(o.StateUpdTime < c.Datetime)
            THEN IF \/ o.Side = "B" /\ FGt(c.High, c.Open) /\ FGt(c.High, o.BrokerPrice)
                    \/ o.Side = "S" /\ FLt(c.Low, c.Open) /\ FLt(c.Low, o.BrokerPrice)
                 THEN c.Open ELSE NaN
            ELSE CASE o.Side = "B" ->
                        IF FGe(c.High, o.BrokerPrice)
                        THEN IF FGt(c.Open, o.BrokerPrice) THEN c.Open ELSE o.BrokerPrice
                        ELSE NaN
                   [] o.Side = "S" ->
                        IF FLe(c.Low, o.BrokerPrice)
                        THEN IF FLt(c.Open, o.BrokerPrice) THEN c.Open ELSE o.BrokerPrice
                        ELSE NaN
                   [] OTHER -> NaN
    IN  OneOrNone(e, o, fillPrice)

AtMarketOpen(e) ==
    HourOf(e.CandleTime) = HourOf(MarketOpenTime) /\ MinuteOf(e.CandleTime) = MinuteOf(MarketOpenTime)

fillOnCandleOpenMOO(b, o, e) ==
    IF e.TimeFrame = "D" \/ e.TimeFrame = "W" THEN LeavesFill(e, o, e.Price)
    ELSE IF ~AtMarketOpen(e) THEN None
    ELSE LeavesFill(e, o, e.Price)

fillOnCandleOpenLOO(b, o, e) ==
    LET canBeFilled == e.TimeFrame = "D" \/ e.TimeFrame = "W" \/ AtMarketOpen(e)
        hit == \/ o.Side = "B" /\ (FLt(e.Price, o.BrokerPrice) \/ (FEq(e.Price, o.BrokerPrice) /\ ~b.strictLimitOrders))
               \/ o.Side = "S" /\ (FGt(e.Price, o.BrokerPrice) \/ (FEq(e.Price, o.BrokerPrice) /\ ~b.strictLimitOrders))
    IN  IF ~canBeFilled THEN None
        ELSE IF hit THEN LeavesFill(e, o, e.Price)
        ELSE Out(<<Cancel(e.time, o)>>, <<>>)

fillOnCandleOpenMarket(b, o, e) == LeavesFill(e, o, e.Price)

fillOnCandleOpenLimit(b, o, e) ==
    LET fillPrice == IF e.TimeFrame = "D" \/ e.TimeFrame = "W" THEN e.Price ELSE o.BrokerPrice
        hit == \/ o.Side = "B" /\ (FLt(e.Price, o.BrokerPrice) \/ (FEq(e.Price, o.BrokerPrice) /\ ~b.strictLimitOrders))
               \/ o.Side = "S" /\ (FGt(e.Price, o.BrokerPrice) \/ (FEq(e.Price, o.BrokerPrice) /\ ~b.strictLimitOrders))
               \/ ~b.strictLimitOrders /\ FEq(e.Price, o.BrokerPrice)
    IN  IF hit THEN LeavesFill(e, o, fillPrice) ELSE None

fillOnCandleOpenStop(b, o, e) ==
    IF \/ o.Side = "B" /\ FGt(e.Price, o.BrokerPrice)
       \/ o.Side = "S" /\ FLt(e.Price, o.BrokerPrice)
    THEN LeavesFill(e, o, e.Price)
    ELSE None

findExecutionsOnCandleClose(b, o, e) ==
    CASE o.Type = "LimitOrder" -> fillOnCandleCloseLimit(b, o, e)
      [] o.Type = "StopOrder" -> fillOnCandleCloseStop(b, o, e)
      [] o.Type = "LimitOnClose" -> fillOnCandleCloseLOC(b, o, e)
      [] o.Type = "MarketOnClose" -> fillOnCandleCloseMOC(b, o, e)
      [] OTHER -> None

\* findExecutionsOnCandleClose panics ("Not implemented") for a Market order
candleClosePanics(o) == o.Type = "MarketOrder"

findExecutionsOnCandleOpen(b, o, e) ==
    CASE o.Type = "LimitOrder" -> fillOnCandleOpenLimit(b, o, e)
      [] o.Type = "LimitOnOpen" -> fillOnCandleOpenLOO(b, o, e)
      [] o.Type = "StopOrder" -> fillOnCandleOpenStop(b, o, e)
      [] o.Type = "MarketOnOpen" -> fillOnCandleOpenMOO(b, o, e)
      [] o.Type = "MarketOrder" -> fillOnCandleOpenMarket(b, o, e)
      [] OTHER -> None


(***************************************************************************)
(* findExecutions.  ids is the order in which the range over the order map  *)
(* visits the orders; Go leaves that order unspecified.                     *)
(***************************************************************************)
\* the market-data event as it travels on the channels
NewTickEvent(tick) ==
    [name |-> "NewTickEvent", time |-> tick.Datetime, Tick |-> tick]
CandleOpenEvent(t, price, tf) ==
    [name |-> "CandleOpenEvent", time |-> t, CandleTime |-> t, Price |-> price, TimeFrame |-> tf]
CandleCloseEvent(t, candle, tf) ==
    [name |-> "CandleCloseEvent", time |-> t, Candle |-> candle, TimeFrame |-> tf]

\* history: an order o matched against market data, what came of it, and the
\* time cancelByTif tested its expiry at (tif: <<t>>, or <<>> when it was not called)
Matched(o, evs, tif) == [ord |-> o, evs |-> evs, tif |-> tif]

\* one iteration of the range loop for order o: the worker, the events
\* appended to genEvents, and the history of the match
Step(b, evs, m) == [b |-> b, ev |-> evs, matched |-> m]

\* after cancelByTif returned c: skip the order when it was canceled, else
\* keep what the executor returned (r)
unlessCanceled(c, b, o, r, tif) ==
    IF c.cancel \/ c.b.panicked THEN Step(c.b, <<>>, <<>>)
    ELSE Step(newErrors(b, r.err), r.ev, <<Matched(o, r.ev, tif)>>)

visitOnTick(b, o, i) ==
    IF isActive(o) /\ o.StateUpdTime < i.Tick.Datetime
    THEN unlessCanceled(cancelByTif(b, o, i.Tick.Datetime), b, o,
                        findExecutionsOnTick(b, o, i.Tick), <<i.Tick.Datetime>>)
    ELSE Step(b, <<>>, <<>>)

visitOnCandleClose(b, o, i) ==
    IF isActive(o) /\ o.StateUpdTime < i.time
    THEN IF ~isExpired(o, i.Candle.Datetime) /\ ~expirationPanics(o) /\ candleClosePanics(o)
         THEN Step(Panic(b), <<>>, <<>>)
         ELSE unlessCanceled(cancelByTif(b, o, i.Candle.Datetime), b, o,
                             findExecutionsOnCandleClose(b, o, i), <<i.Candle.Datetime>>)
    ELSE Step(b, <<>>, <<>>)

visitOnCandleOpen(b, o, i) ==
    IF isActive(o)
    THEN IF o.StateUpdTime < i.CandleTime
         THEN unlessCanceled(cancelByTif(b, o, i.CandleTime), b, o,
                             findExecutionsOnCandleOpen(b, o, i), <<i.CandleTime>>)
         ELSE IF o.Type \in {"MarketOrder", "StopOrder"} /\ ~(o.StateUpdTime > i.time)
              THEN unlessCanceled([b |-> b, cancel |-> FALSE], b, o,
                                  findExecutionsOnCandleOpen(b, o, i), <<>>)
              ELSE Step(b, <<>>, <<>>)
    ELSE Step(b, <<>>, <<>>)

visit(b, o, mdEvent) ==
    CASE mdEvent.name = "NewTickEvent" -> visitOnTick(b, o, mdEvent)
      [] mdEvent.name = "CandleCloseEvent" -> visitOnCandleClose(b, o, mdEvent)
      [] mdEvent.name = "CandleOpenEvent" -> visitOnCandleOpen(b, o, mdEvent)
      [] OTHER -> Step(Panic(b), <<>>, <<>>)

RECURSIVE rangeOrders(_, _, _, _, _)
RECURSIVE rangeNext(_, _, _, _, _)
rangeOrders(b, genEvents, matched, ids, mdEvent) ==
    IF b.panicked \/ ids = <<>> THEN Step(b, genEvents, matched)
    ELSE IF Head(ids) \notin DOMAIN b.orders
         THEN rangeOrders(b, genEvents, matched, Tail(ids), mdEvent)
         ELSE rangeNext(visit(b, b.orders[Head(ids)], mdEvent), genEvents, matched,
                        Tail(ids), mdEvent)

rangeNext(r, genEvents, matched, ids, mdEvent) ==
    rangeOrders(r.b, genEvents \o r.ev, matched \o r.matched, ids, mdEvent)

\* a variant that holds back the events of time t itself
notAfterStrict(es, t) == SelectSeq(es, LAMBDA e: e.time < t)
notAfter(es, t) == SelectSeq(es, LAMBDA e: ~(e.time > t))
after(es, t) == SelectSeq(es, LAMBDA e: e.time > t)

MdLogEntry(md, pending, matched, sent, left, queue) ==
    [md |-> md, pending |-> pending, matched |-> matched, sent |-> sent, left |-> left,
     queue |-> queue]

\* the tail of findExecutions: sort the buffer, send what is due, keep the rest
release(b, sorted, md, pending, matched) ==
    IF b.panicked THEN b
    ELSE [b EXCEPT !.generatedEvents = after(sorted, md.time),
                   !.events = @ \o notAfter(sorted, md.time),
                   !.mdlog = Append(@, MdLogEntry(md, pending, matched,
                                                  notAfter(sorted, md.time),
                                                  after(sorted, md.time),
                                                  b.requestEvents))]

\* the middle of findExecutions: add the events the range loop (r) collected
addGenerated(r, md, pending) ==
    release(addBrokerEvents(r.b, r.ev),
            eventArraySort(addBrokerEvents(r.b, r.ev).generatedEvents),
            md, pending, r.matched)

\* md is the market-data event as it travels on (its payload left out)
findExecutionsOf(b, mdEvent, md, ids) ==
    IF DOMAIN b.orders = {} /\ Len(b.generatedEvents) = 0
    THEN [b EXCEPT !.events = Append(@, md), !.nextGen = @ + 1,
                   !.mdlog = Append(@, MdLogEntry(md, <<>>, <<>>, <<md>>, <<>>,
                                                  b.requestEvents))]
    ELSE addGenerated(
            rangeOrders([b EXCEPT !.generatedEvents = Append(@, md), !.nextGen = @ + 1],
                        <<>>, <<>>, ids, mdEvent),
            md, b.generatedEvents)

findExecutions(b, mdEvent, ids) ==
    findExecutionsOf(b, mdEvent, Stamp(b, MdEv(mdEvent.name, mdEvent.time)), ids)

\* a variant that takes the time of a tick before it looks at the tick
onTickTimeFirst(b, e, ids) ==
    IF ~TickIsValid(e.Tick)
    THEN newError([b EXCEPT !.lastTickTime = e.Tick.Datetime], "ErrBrokenTick")
    ELSE IF e.Tick.Datetime < b.lastTickTime THEN Panic(b)
    ELSE findExecutions(
            proceedStoredRequests([b EXCEPT !.lastTickTime = e.Tick.Datetime], e.time),
            e, ids)

onTick(b, e, ids) ==
    IF ~TickIsValid(e.Tick) THEN newError(b, "ErrBrokenTick")
    ELSE IF e.Tick.Datetime < b.lastTickTime THEN Panic(b)
    ELSE findExecutions(
            proceedStoredRequests([b EXCEPT !.lastTickTime = e.Tick.Datetime], e.time),
            e, ids)

onCandleOpen(b, e, ids) ==
    IF e.CandleTime < b.lastCandleTime THEN Panic(b)
    ELSE findExecutions(
            proceedStoredRequests([b EXCEPT !.lastCandleTime = e.CandleTime], e.time),
            e, ids)

\* a variant that takes a closed candle of any time
onCandleCloseAnyTime(b, e, ids) ==
    findExecutions(proceedStoredRequests([b EXCEPT !.lastCandleTime = e.time], e.time),
                   e, ids)

onCandleClose(b, e, ids) ==
    IF e.time < b.lastCandleTime THEN Panic(b)
    ELSE findExecutions(
            proceedStoredRequests([b EXCEPT !.lastCandleTime = e.time], e.time),
            e, ids)

(***************************************************************************)
(* Inputs.                                                                  *)
(***************************************************************************)
\* the orders a strategy may submit (id and time are chosen by the action)
Order(id, side, qty, type, price, tif, t) ==
    [Id |-> id, Side |-> side, Qty |-> qty, Type |-> type, Price |-> price,
     Tif |-> tif, Time |-> t]

OrderShapes ==
    { Order("", "B", 2, "LimitOrder", 2, "DayTIF", 0),
      Order("", "S", 2, "MarketOrder", NaN, "GTCTIF", 0),
      Order("", "B", 0, "LimitOrder", 2, "GTCTIF", 0) }

ReplacePrices == {3}

\* ticks (the datetime is chosen by the action)
TickShapes ==
    { Tick(0, 1, 1, NaN, 0, NaN, 0, FALSE, FALSE),
      Tick(0, 2, 3, NaN, 0, NaN, 0, FALSE, FALSE),
      Tick(0, NaN, 0, 1, 1, 3, 1, FALSE, FALSE) }

\* candles: the open prices of candle-open events and the bars of candle-close
\* events (times are chosen by the action; a bar starts CandleSpan before it closes)
OpenPrices == {1}
CandleShapes == { Candle(0, 3, 3, 1, 2, FALSE, FALSE) }
TimeFrames == {"M"}

\* the orders in which a range over the order map may visit the ids
Orderings == { s \in [1..Cardinality(OrderIds) -> OrderIds] :
                 \A i, j \in DOMAIN s : i # j => s[i] # s[j] }

\* the strategy's clock (its most recent time) is never ahead of the market
\* data the worker has seen
Max(x, y) == IF x > y THEN x ELSE y
Clock == Max(lastTickTime, lastCandleTime)
ReqTimes == { t \in (Clock - MaxLag)..Clock : t >= 0 }

(***************************************************************************)
(* Actions: one per kind of event passed to simBrokerWorker.notify.         *)
(***************************************************************************)
InstallWorker(b) ==
    /\ orders' = b.orders
    /\ generatedEvents' = b.generatedEvents
    /\ requestEvents' = b.requestEvents
    /\ events' = b.events
    /\ errors' = b.errors
    /\ lastTickTime' = b.lastTickTime
    /\ lastCandleTime' = b.lastCandleTime
    /\ panicked' = b.panicked
    /\ nextGen' = b.nextGen
    /\ log' = b.log
    /\ mdlog' = b.mdlog

Install(b) ==
    /\ InstallWorker(b)
    /\ UNCHANGED <<btm, calls, checkExecutionsOnTicks, delay, strictLimitOrders, strategyVars,
                   runtimeVars>>

Request(e) ==
    /\ ~panicked
    /\ nReq < MaxRequests
    /\ Install(addRequestEvent(Worker, e))
    /\ nReq' = nReq + 1
    /\ UNCHANGED nMd

NotifyNewOrder ==
    \E id \in OrderIds, o \in OrderShapes, t \in ReqTimes :
        Request(NewOrderEvent([o EXCEPT !.Id = id, !.Time = t], t))

NotifyCancelRequest ==
    \E id \in OrderIds, t \in ReqTimes :
        Request(OrderCancelRequestEvent(id, t))

NotifyReplaceRequest ==
    \E id \in OrderIds, p \in ReplacePrices, t \in ReqTimes :
        Request(OrderReplaceRequestEvent(id, p, t))

NotifyTick ==
    \E tick \in TickShapes, t \in Times, ids \in Orderings :
        /\ ~panicked
        /\ nMd < MaxMd
        /\ Install(onTick(Worker, NewTickEvent([tick EXCEPT !.Datetime = t]), ids))
        /\ nMd' = nMd + 1
        /\ UNCHANGED nReq

NotifyCandleOpen ==
    \E price \in OpenPrices, tf \in TimeFrames, t \in Times, ids \in Orderings :
        /\ ~panicked
        /\ nMd < MaxMd
        /\ Install(onCandleOpen(Worker, CandleOpenEvent(t, price, tf), ids))
        /\ nMd' = nMd + 1
        /\ UNCHANGED nReq

NotifyCandleClose ==
    \E c \in CandleShapes, tf \in TimeFrames, t \in Times, ids \in Orderings :
        /\ ~panicked
        /\ nMd < MaxMd
        /\ Install(onCandleClose(Worker,
                CandleCloseEvent(t, [c EXCEPT !.Datetime = t - CandleSpan], tf), ids))
        /\ nMd' = nMd + 1
        /\ UNCHANGED nReq

\* a producer that was given no symbols and has prepared nothing
NoBTM ==
    [Symbols |-> << >>, storage |-> << >>, filename |-> 0, file |-> << >>,
     errChan |-> << >>, eventChan |-> << >>, read |-> 0, state |-> "connected"]

\* no call of notify is in progress and mpMutext is free
NoCalls ==
    [md |-> [pc |-> "idle", e |-> << >>, ids |-> << >>, es |-> << >>, left |-> << >>],
     req |-> [pc |-> "idle", e |-> << >>, old |-> << >>],
     mpMutext |-> ""]

InitWorker ==
    /\ delay \in Delays
    /\ strictLimitOrders \in BOOLEAN
    /\ orders = << >>
    /\ generatedEvents = << >>
    /\ requestEvents = << >>
    /\ events = << >>
    /\ errors = << >>
    /\ lastTickTime = 0
    /\ lastCandleTime = 0
    /\ panicked = FALSE
    /\ nextGen = 0
    /\ log = << >>
    /\ mdlog = << >>
    /\ nReq = 0
    /\ nMd = 0
    /\ shutDownReturned = FALSE
    /\ calls = NoCalls

\* BasicStrategy.init: nothing awaits a response, the current trade is flat
InitBasicStrategy ==
    /\ waitingConfirmation = {}
    /\ waitingN = 0
    /\ currentTrade = << >>
    /\ mostRecentTime = 0
    /\ chEvents = << >>
    /\ chErrors = << >>
    /\ Ticks = << >>
    /\ Candles = << >>
    /\ lastCandleOpen = NaN
    /\ lastCandleOpenTime = 0
    /\ strategyPanicked = FALSE
    /\ tradeType = "FlatTrade"
    /\ tradeQty = 0
    /\ tradeId = 1
    /\ closedTrades = << >>
    /\ chPortfolio = << >>
    /\ called = << >>
    /\ notified = [n |-> 0, latest |-> 0]
    /\ mdChan = 1
    /\ mut = 0
    /\ handlers = << >>

Init ==
    checkExecutionsOnTicks \in BOOLEAN /\ InitWorker /\ InitBasicStrategy /\ nPeriods = 1
    /\ btm = NoBTM
InitRun ==
    checkExecutionsOnTicks = TRUE /\ InitWorker /\ InitBasicStrategy /\ nPeriods = 1
InitTick ==
    InitRun /\ btm = NoBTM
InitCandle ==
    checkExecutionsOnTicks = FALSE /\ InitWorker /\ InitBasicStrategy /\ nPeriods = 1
    /\ btm = NoBTM

NextRequest ==
    \/ NotifyNewOrder
    \/ NotifyCancelRequest
    \/ NotifyReplaceRequest

NextTick ==
    \/ NextRequest
    \/ NotifyTick

NextCandle ==
    \/ NextRequest
    \/ NotifyCandleOpen
    \/ NotifyCandleClose

Next ==
    \/ checkExecutionsOnTicks /\ NextTick
    \/ ~checkExecutionsOnTicks /\ NextCandle

\* a run on ticks or on candles
Spec == Init /\ [][Next]_vars
\* a run on ticks
SpecTick == InitTick /\ [][NextTick]_vars
\* a run on candles
SpecCandle == InitCandle /\ [][NextCandle]_vars

\* a run on ticks with limit orders of both sides and trades below, at and
\* above their price
LimitShapes ==
    { Order("", "B", 2, "LimitOrder", 2, "GTCTIF", 0),
      Order("", "S", 2, "LimitOrder", 2, "GTCTIF", 0) }

LimitTicks ==
    { Tick(0, 1, 1, NaN, 0, NaN, 0, FALSE, FALSE),
      Tick(0, 2, 3, NaN, 0, NaN, 0, FALSE, FALSE),
      Tick(0, 3, 1, NaN, 0, NaN, 0, FALSE, FALSE),
      Tick(0, NaN, 0, 1, 1, 3, 1, FALSE, FALSE) }

NotifyNewLimitOrder ==
    \E id \in OrderIds, o \in LimitShapes, t \in ReqTimes :
        Request(NewOrderEvent([o EXCEPT !.Id = id, !.Time = t], t))

NotifyLimitTick ==
    \E tick \in LimitTicks, t \in Times, ids \in Orderings :
        /\ ~panicked
        /\ nMd < MaxMd
        /\ Install(onTick(Worker, NewTickEvent([tick EXCEPT !.Datetime = t]), ids))
        /\ nMd' = nMd + 1
        /\ UNCHANGED nReq

NextLimit ==
    \/ NotifyNewLimitOrder
    \/ NotifyReplaceRequest
    \/ NotifyLimitTick

SpecLimit == InitTick /\ [][NextLimit]_vars

(***************************************************************************)
(* The strategy runtime (BasicStrategy) as a value, its API calls and its   *)
(* handlers of broker responses. The broker is its environment here: it     *)
(* answers every request once, and cancels confirmed orders on its own.     *)
(***************************************************************************)
Strategy ==
    [waitingConfirmation |-> waitingConfirmation, waitingN |-> waitingN,
     currentTrade |-> currentTrade, mostRecentTime |-> mostRecentTime,
     chEvents |-> chEvents, chErrors |-> chErrors]

\* a key of waitingConfirmation: the string prefix + ordId
Token(prefix, ordId) == <<prefix, ordId>>

\* what an API call returns: the strategy after it and the error ("" for nil)
Ret(s, err) == [s |-> s, err |-> err]

newStrategyError(s, err) == [s EXCEPT !.chErrors = Append(@, err)]

newSignal(s, e) == [s EXCEPT !.chEvents = Append(@, e)]

\* the trade engine: orders are put as New, move to Confirmed on confirmation
\* and from there to Canceled, or from New to Rejected; a move of an order
\* that is not where it should be is an error and changes nothing
hasConfirmedOrderWithId(s, ordId) ==
    ordId \in DOMAIN s.currentTrade /\ s.currentTrade[ordId] = "ConfirmedOrder"

putNewOrder(s, order) == [s EXCEPT !.currentTrade = (order.Id :> "NewOrder") @@ @]

moveOrder(s, ordId, from, to) ==
    IF ordId \in DOMAIN s.currentTrade /\ s.currentTrade[ordId] = from
    THEN [s EXCEPT !.currentTrade[ordId] = to]
    ELSE newStrategyError(s, "ErrOrderNotFoundInOrdersMap")

\* a variant for which no request ever awaits a response
waitingNever(s, reqID) == FALSE
waiting(s, reqID) == reqID \in s.waitingConfirmation

\* record the token, count it and send the request
track(s, reqID, e) ==
    newSignal([s EXCEPT !.waitingConfirmation = @ \cup {reqID}, !.waitingN = @ + 1], e)

newOrder(s, order) ==
    IF ~isValid(order) THEN Ret(s, "Order is not valid. ")
    ELSE IF waiting(s, Token("$NO$", order.Id))
         THEN Ret(putNewOrder(s, order), "Order is already waiting for conf. ")
         ELSE Ret(track(putNewOrder(s, order), Token("$NO$", order.Id),
                        NewOrderEvent(order, s.mostRecentTime)), "")

CancelOrder(s, ordID) ==
    IF ordID = "" THEN Ret(s, "ErrOrderIdIncorrect")
    ELSE IF ~hasConfirmedOrderWithId(s, ordID) THEN Ret(s, "ErrOrderNotFoundInConfirmedMap")
    ELSE IF waiting(s, Token("$CAN$", ordID))
         THEN Ret(s, "Request is already waiting for conf. ")
         ELSE Ret(track(s, Token("$CAN$", ordID),
                        OrderCancelRequestEvent(ordID, s.mostRecentTime)), "")

ReplaceOrder(s, ordID, newPrice) ==
    IF ordID = "" THEN Ret(s, "ErrOrderIdIncorrect")
    ELSE IF ~hasConfirmedOrderWithId(s, ordID) THEN Ret(s, "ErrOrderNotFoundInConfirmedMap")
    ELSE IF waiting(s, Token("$REP$", ordID))
         THEN Ret(s, "Request is already waiting for conf. ")
         ELSE Ret(track(s, Token("$REP$", ordID),
                        OrderReplaceRequestEvent(ordID, newPrice, s.mostRecentTime)), "")

\* the head of every response handler: the clock, the counter, the token
answered(s, e, prefix) ==
    [s EXCEPT !.mostRecentTime = IF e.time > @ THEN e.time ELSE @,
              !.waitingN = @ - 1,
              !.waitingConfirmation = @ \ {Token(prefix, e.OrdId)}]

onOrderCancelHandler(s, e) ==
    moveOrder(answered(s, e, "&CAN&"), e.OrdId, "ConfirmedOrder", "CanceledOrder")

onOrderCancelRejectHandler(s, e) == answered(s, e, "&CAN&")

onOrderReplaceRejectHandler(s, e) == answered(s, e, "&REP&")

onOrderConfirmHandler(s, e) ==
    moveOrder(answered(s, e, "&NO&"), e.OrdId, "NewOrder", "ConfirmedOrder")

onOrderReplacedHandler(s, e) ==
    moveOrder(answered(s, e, "&REP&"), e.OrdId, "ConfirmedOrder", "ConfirmedOrder")

onOrderRejectedHandler(s, e) ==
    moveOrder(answered(s, e, "&NO&"), e.OrdId, "NewOrder", "RejectedOrder")

proxyEvent(s, e) ==
    CASE e.name = "OrderCancelEvent" -> onOrderCancelHandler(s, e)
      [] e.name = "OrderCancelRejectEvent" -> onOrderCancelRejectHandler(s, e)
      [] e.name = "OrderConfirmationEvent" -> onOrderConfirmHandler(s, e)
      [] e.name = "OrderReplacedEvent" -> onOrderReplacedHandler(s, e)
      [] e.name = "OrderReplaceRejectEvent" -> onOrderReplaceRejectHandler(s, e)
      [] e.name = "OrderRejectedEvent" -> onOrderRejectedHandler(s, e)

\* the responses the broker may give to request e, at its round-trip time
Responses(e) ==
    { Ev(name, genTimeRoundTrip(Worker, e.time), e.OrdId, e.NewPrice, 0, "") :
        name \in CASE e.name = "NewOrderEvent" ->
                        {"OrderConfirmationEvent", "OrderRejectedEvent"}
                   [] e.name = "OrderCancelRequestEvent" ->
                        {"OrderCancelEvent", "OrderCancelRejectEvent"}
                   [] e.name = "OrderReplaceRequestEvent" ->
                        {"OrderReplacedEvent", "OrderReplaceRejectEvent"} }

\* sequence es without its k-th element
Without(es, k) == SubSeq(es, 1, k - 1) \o SubSeq(es, k + 1, Len(es))

InstallStrategy(s) ==
    /\ waitingConfirmation' = s.waitingConfirmation
    /\ waitingN' = s.waitingN
    /\ currentTrade' = s.currentTrade
    /\ mostRecentTime' = s.mostRecentTime
    /\ chEvents' = s.chEvents
    /\ chErrors' = s.chErrors
    /\ UNCHANGED <<btm, calls, checkExecutionsOnTicks, delay, strictLimitOrders, orders,
                   generatedEvents, requestEvents, events, errors, lastTickTime,
                   lastCandleTime, panicked, nextGen, log, mdlog, nMd, runtimeVars>>

\* an API call of the user strategy that returned r; nReq counts the
\* requests it sent
Call(r) ==
    /\ nReq < MaxSignals
    /\ InstallStrategy(r.s)
    /\ nReq' = nReq + Len(r.s.chEvents) - Len(chEvents)

\* the user strategy submits an order; its id is one no order has yet
CallNewOrder ==
    \E id \in OrderIds \ DOMAIN currentTrade, o \in OrderShapes :
        Call(newOrder(Strategy, [o EXCEPT !.Id = id, !.Time = mostRecentTime]))

CallCancelOrder == \E id \in OrderIds : Call(CancelOrder(Strategy, id))

CallReplaceOrder ==
    \E id \in OrderIds, p \in ReplacePrices : Call(ReplaceOrder(Strategy, id, p))

\* the broker answers a request, and the answer is passed to notify
NotifyResponse ==
    \E k \in DOMAIN chEvents : \E e \in Responses(chEvents[k]) :
        /\ InstallStrategy([proxyEvent(Strategy, e) EXCEPT !.chEvents = Without(chEvents, k)])
        /\ nReq' = nReq

\* the broker cancels a confirmed order by its time in force
NotifyExpiry ==
    \E id \in DOMAIN currentTrade :
        /\ currentTrade[id] = "ConfirmedOrder"
        /\ InstallStrategy(proxyEvent(Strategy,
                Ev("OrderCancelEvent", mostRecentTime, id, NaN, 0, "")))
        /\ nReq' = nReq

NextStrategy ==
    \/ CallNewOrder
    \/ CallCancelOrder
    \/ CallReplaceOrder
    \/ NotifyResponse
    \/ NotifyExpiry

\* a run of the strategy runtime against a broker that answers
SpecStrategy == InitTick /\ [][NextStrategy]_vars

(***************************************************************************)
(* Properties.                                                              *)
(***************************************************************************)
NonDecreasing(es) == \A i \in 1..(Len(es) - 1) : es[i].time <= es[i + 1].time

\* C1: the events the worker sends on its output channel (market data merged
\* with the broker's confirmations, rejections, fills, cancels and replaces)
\* are in non-decreasing order of simulated timestamp.
C1_OutputNonDecreasing == NonDecreasing(events)

\* the output channel without the history stamps
Output(b) == [i \in DOMAIN b.events |-> [b.events[i] EXCEPT !.gen = 0]]

\* C2: for a fixed configuration and a fixed sequence of notify calls there is
\* exactly one possible output sequence, whatever the order in which the order
\* map is iterated: from every reachable state, any market-data event gives the
\* same output (and the same panic or not) under any two iteration orders.
C2_OutputIndependentOfMapOrder ==
    \A t \in Times, p, q \in Orderings :
        /\ checkExecutionsOnTicks =>
             \A tick \in TickShapes :
                /\ Output(onTick(Worker, NewTickEvent([tick EXCEPT !.Datetime = t]), p))
                     = Output(onTick(Worker, NewTickEvent([tick EXCEPT !.Datetime = t]), q))
                /\ onTick(Worker, NewTickEvent([tick EXCEPT !.Datetime = t]), p).panicked
                     = onTick(Worker, NewTickEvent([tick EXCEPT !.Datetime = t]), q).panicked
        /\ ~checkExecutionsOnTicks =>
             \A price \in OpenPrices, tf \in TimeFrames :
                /\ Output(onCandleOpen(Worker, CandleOpenEvent(t, price, tf), p))
                     = Output(onCandleOpen(Worker, CandleOpenEvent(t, price, tf), q))
                /\ onCandleOpen(Worker, CandleOpenEvent(t, price, tf), p).panicked
                     = onCandleOpen(Worker, CandleOpenEvent(t, price, tf), q).panicked

ResponseNames ==
    {"OrderConfirmationEvent", "OrderRejectedEvent", "OrderCancelEvent",
     "OrderCancelRejectEvent", "OrderReplacedEvent", "OrderReplaceRejectEvent"}

\* C3: every response the worker generates for a request submitted at time T_s
\* (confirmation, rejection, cancel, cancel reject, replace, replace reject)
\* carries the timestamp T_s + twice the configured delay, whatever the time of
\* the market-data event on which the request was processed.
C3_ResponseAtRoundTrip ==
    \A i \in DOMAIN log : \A j \in DOMAIN log[i].resp :
        /\ log[i].resp[j].name \in ResponseNames
        /\ log[i].resp[j].time = log[i].req.time + Millis(2 * delay)

\* a confirmation, a cancel and a reject, each for a request processed on
\* market data later than the response's own timestamp
C3_Witness ==
    \E i \in DOMAIN log :
        /\ Len(log[i].resp) = 1
        /\ log[i].resp[1].name = "OrderConfirmationEvent"
        /\ log[i].at > log[i].resp[1].time
        /\ \E j \in DOMAIN log :
              /\ Len(log[j].resp) = 1
              /\ log[j].resp[1].name \in {"OrderCancelEvent", "OrderCancelRejectEvent",
                                          "OrderReplacedEvent", "OrderRejectedEvent"}
              /\ log[j].at > log[j].resp[1].time + 1

\* the requests an entry of mdlog left in the arrival queue
QueuedAfter(k) == { mdlog[k].queue[n] : n \in DOMAIN mdlog[k].queue }

\* C4 (as stated): a request submitted at t is processed on the first market
\* data whose time T satisfies T >= t + single-trip, equality included: a
\* request that a market-data event leaves in the queue has t + single-trip > T.
C4_ProcessedAtOrAfterSingleTrip ==
    \A k \in DOMAIN mdlog : \A r \in QueuedAfter(k) :
        r.time + Millis(delay) > mdlog[k].md.time

\* C4 (amended): a request submitted at t is processed on the first market data
\* whose time T is strictly later than t + single-trip, never on one with
\* T <= t + single-trip, and stays in the arrival queue until then.
C4_ProcessedStrictlyAfterSingleTrip ==
    /\ \A i \in DOMAIN log : log[i].req.time + Millis(delay) < log[i].at
    /\ \A k \in DOMAIN mdlog : \A r \in QueuedAfter(k) :
          r.time + Millis(delay) >= mdlog[k].md.time
    /\ ~panicked => nReq = Len(requestEvents) + Len(log)

\* a request left in the queue by market data at exactly t + single-trip and
\* processed on a later market-data event
C4_Witness ==
    \E k \in DOMAIN mdlog : \E r \in QueuedAfter(k) :
        /\ r.time + Millis(delay) = mdlog[k].md.time
        /\ \E i \in DOMAIN log : log[i].req = r /\ log[i].k > k

\* the orders an entry of mdlog generated a fill for, as they were when matched
FilledOn(k) ==
    { mdlog[k].matched[n] : n \in { n \in DOMAIN mdlog[k].matched :
        \E j \in DOMAIN mdlog[k].matched[n].evs :
            mdlog[k].matched[n].evs[j].name = "OrderFillEvent" } }

ActiveStates == {"ConfirmedOrder", "PartialFilledOrder"}

Range(s) == { s[n] : n \in DOMAIN s }

\* where event e stands in the sequence es (0 when it is not in it)
Pos(es, e) == IF e \in Range(es) THEN CHOOSE n \in DOMAIN es : es[n] = e ELSE 0

\* what the market-data events handled so far sent, one batch after the other
RECURSIVE SentUpTo(_)
SentUpTo(k) == IF k = 0 THEN <<>> ELSE SentUpTo(k - 1) \o mdlog[k].sent

\* C6: when the worker processes market data at time T, every broker event in
\* its pending buffer (what earlier market data left there and the responses to
\* the requests processed on this one) with timestamp <= T is sent on the
\* output channel before the market-data event, and every pending event with
\* timestamp > T stays in the buffer and is not sent.
C6_PendingReleasedBeforeMarketData ==
    /\ \A k \in DOMAIN mdlog : \A e \in Range(mdlog[k].pending) :
          IF e.time <= mdlog[k].md.time
          THEN /\ 0 < Pos(mdlog[k].sent, e)
               /\ Pos(mdlog[k].sent, e) < Pos(mdlog[k].sent, mdlog[k].md)
               /\ e \notin Range(mdlog[k].left)
          ELSE /\ e \in Range(mdlog[k].left)
               /\ e \notin Range(mdlog[k].sent)
    /\ ~panicked =>
          /\ events = SentUpTo(Len(mdlog))
          /\ mdlog # <<>> => Range(mdlog[Len(mdlog)].left) \subseteq Range(generatedEvents)

\* market data that found in the buffer an event due (timestamp <= T) and one
\* not yet due (timestamp > T)
C6_Witness ==
    \E k \in DOMAIN mdlog : \E e, f \in Range(mdlog[k].pending) :
        /\ e.time <= mdlog[k].md.time
        /\ f.time > mdlog[k].md.time
        /\ e.name \in BrokerEventNames
        /\ f.name \in BrokerEventNames

\* C7 (as stated): when a market-data event and a broker-generated event have
\* the same timestamp the market-data event comes first in the output, and two
\* broker-generated events with the same timestamp appear in the order in
\* which they were generated.
C7_MarketDataFirstOnTies ==
    \A i, j \in DOMAIN events :
        (i < j /\ events[i].time = events[j].time) =>
            /\ events[j].name \in MdEventNames => events[i].name \in MdEventNames
            /\ events[i].name \notin MdEventNames /\ events[j].name \notin MdEventNames
                  => events[i].gen < events[j].gen

\* C7 (amended): events with the same timestamp appear in the output in the
\* order in which the worker generated or received them: a broker event that is
\* in the buffer when market data of the same timestamp is matched comes before
\* the market-data event, a broker event generated by matching that market data
\* comes after it.
C7_TiesInGenerationOrder ==
    /\ \A i, j \in DOMAIN events :
          (i < j /\ events[i].time = events[j].time) => events[i].gen < events[j].gen
    /\ \A k \in DOMAIN mdlog : \A e \in Range(mdlog[k].sent) :
          (e.time = mdlog[k].md.time /\ e # mdlog[k].md) =>
              (e \in Range(mdlog[k].pending)
                 <=> Pos(mdlog[k].sent, e) < Pos(mdlog[k].sent, mdlog[k].md))

\* market data sent between a buffered broker event and a broker event of its
\* own matching, all three with the same timestamp
C7_Witness ==
    \E k \in DOMAIN mdlog : \E e, f \in Range(mdlog[k].sent) :
        /\ e.time = mdlog[k].md.time
        /\ f.time = mdlog[k].md.time
        /\ Pos(mdlog[k].sent, e) < Pos(mdlog[k].sent, mdlog[k].md)
        /\ Pos(mdlog[k].sent, mdlog[k].md) < Pos(mdlog[k].sent, f)

\* C8: the requests that become visible on the same market-data event are
\* processed in non-decreasing order of their submission timestamps, whatever
\* the order they were passed to notify in, also when their submission times
\* differ by less than one second.
C8_ProcessedInSubmissionOrder ==
    \A i, j \in DOMAIN log :
        (i < j /\ log[i].k = log[j].k) => log[i].req.time <= log[j].req.time

\* C9: processing a NewOrderRequest yields exactly one response: for a valid
\* order whose id the worker does not know yet, a confirmation, and the order
\* is installed in state Confirmed with executed quantity 0 and working price
\* equal to the order price; for an invalid order or a known id, a rejection
\* and no confirmation.
C9_NewOrderOneResponse ==
    \A i \in DOMAIN log :
        log[i].req.name = "NewOrderEvent" =>
            /\ Len(log[i].resp) = 1
            /\ log[i].resp[1].OrdId = log[i].req.OrdId
            /\ IF isValid(log[i].req.LinkedOrder) /\ log[i].pre = "none"
               THEN /\ log[i].resp[1].name = "OrderConfirmationEvent"
                    /\ log[i].post.Id = log[i].req.OrdId
                    /\ log[i].post.BrokerState = "ConfirmedOrder"
                    /\ log[i].post.BrokerExecQty = 0
                    /\ log[i].post.BrokerPrice = log[i].req.LinkedOrder.Price
               ELSE log[i].resp[1].name = "OrderRejectedEvent"

\* a confirmed order, then a valid order reusing its id and rejected
C9_Witness ==
    \E i, j \in DOMAIN log :
        /\ i < j
        /\ log[i].req.name = "NewOrderEvent"
        /\ log[j].req.name = "NewOrderEvent"
        /\ log[i].resp[1].name = "OrderConfirmationEvent"
        /\ log[j].req.OrdId = log[i].req.OrdId
        /\ isValid(log[j].req.LinkedOrder)
        /\ log[j].resp[1].name = "OrderRejectedEvent"

\* C10: an order enters state Rejected only from state New (or as it is first
\* installed): no request moves an order the worker holds as Confirmed,
\* PartialFilled, Filled or Canceled into Rejected.
C10_RejectedOnlyFromNew ==
    \A i \in DOMAIN log :
        log[i].post.BrokerState = "RejectedOrder" =>
            log[i].pre \in {"none", "NewOrder", "RejectedOrder"}

TerminalStates == {"FilledOrder", "CanceledOrder", "RejectedOrder"}

\* C11: Filled, Canceled and Rejected are terminal: once an order's broker
\* state is one of them, no later request (new order with the same id, cancel,
\* replace) and no market-data event changes its broker state, executed
\* quantity or working price.
C11_TerminalStatesFrozen ==
    [][\A id \in DOMAIN orders :
          orders[id].BrokerState \in TerminalStates =>
              /\ orders'[id].BrokerState = orders[id].BrokerState
              /\ orders'[id].BrokerExecQty = orders[id].BrokerExecQty
              /\ orders'[id].BrokerPrice = orders[id].BrokerPrice]_vars

\* the states in which a cancel or a replace request is turned down
NotWorkable == {"none", "CanceledOrder", "NewOrder", "FilledOrder"}

\* C12: processing a CancelRequest submitted at t yields exactly one response:
\* a CancelReject if the order is unknown, already Canceled, still New or
\* already Filled, and it leaves the order as it was; otherwise an OrderCancel
\* with timestamp t + round-trip that puts the order in state Canceled.
C12_CancelOneResponse ==
    \A i \in DOMAIN log :
        log[i].req.name = "OrderCancelRequestEvent" =>
            /\ Len(log[i].resp) = 1
            /\ log[i].resp[1].OrdId = log[i].req.OrdId
            /\ IF log[i].pre \in NotWorkable
               THEN /\ log[i].resp[1].name = "OrderCancelRejectEvent"
                    /\ log[i].post = log[i].was
               ELSE /\ log[i].resp[1].name = "OrderCancelEvent"
                    /\ log[i].resp[1].time = log[i].req.time + Millis(2 * delay)
                    /\ log[i].post.BrokerState = "CanceledOrder"
                    /\ log[i].post.StateUpdTime = log[i].resp[1].time
                    /\ log[i].post.BrokerExecQty = log[i].was.BrokerExecQty

\* a partially filled order canceled on request
C12_Witness ==
    \E i \in DOMAIN log :
        /\ log[i].req.name = "OrderCancelRequestEvent"
        /\ log[i].pre = "PartialFilledOrder"
        /\ log[i].post.BrokerState = "CanceledOrder"
        /\ log[i].post.BrokerExecQty = 1

\* C13: a ReplaceRequest for an order that is unknown, already Canceled, still
\* New or already Filled is answered with a ReplaceReject (for a Filled order
\* with the reason that the order is already filled), no OrderReplaced is
\* generated, and the order's working price, state and state-update time are
\* unchanged.
C13_ReplaceRejectedUnlessWorkable ==
    \A i \in DOMAIN log :
        (log[i].req.name = "OrderReplaceRequestEvent" /\ log[i].pre \in NotWorkable) =>
            /\ Len(log[i].resp) = 1
            /\ log[i].resp[1].name = "OrderReplaceRejectEvent"
            /\ log[i].resp[1].OrdId = log[i].req.OrdId
            /\ log[i].pre = "FilledOrder" => log[i].resp[1].Reason = "Order is already filled"
            /\ log[i].post = log[i].was

\* a replace request for a filled order
C13_Witness ==
    \E i \in DOMAIN log :
        /\ log[i].req.name = "OrderReplaceRequestEvent"
        /\ log[i].pre = "FilledOrder"
        /\ log[i].resp[1].name = "OrderReplaceRejectEvent"

\* the quantities of the fills among the events evs
FillQtys(evs) == { evs[j].Qty : j \in { j \in DOMAIN evs : evs[j].name = "OrderFillEvent" } }

\* C15: after any sequence of ticks and requests every generated fill has a
\* quantity of at most the order's leaves quantity, so that the executed
\* quantity never exceeds the order quantity and addBrokerEvent never aborts
\* with "Large qty": whatever tick comes next, the fill it generates for an
\* order it is matched against fits the leaves of that order.
C15_FillAtMostLeaves ==
    \A id \in DOMAIN orders, tick \in TickShapes, t \in Times :
        ( /\ checkExecutionsOnTicks
          /\ ~panicked
          /\ requestEvents = <<>>
          /\ t >= lastTickTime
          /\ isActive(orders[id])
          /\ orders[id].StateUpdTime < t
          /\ ~isExpired(orders[id], t) ) =>
            \A q \in FillQtys(findExecutionsOnTick(Worker, orders[id],
                                                   [tick EXCEPT !.Datetime = t]).ev) :
                q <= orders[id].Qty - orders[id].BrokerExecQty

\* new prices that are not valid prices: not a number, zero, negative
InvalidPrices == {NaN, 0, -1}

\* worker b answered the replace request for id with a reject and left the
\* working price as it is in worker b0
ReplaceRejectedIn(b0, b, id) ==
    /\ Len(b.generatedEvents) = Len(b0.generatedEvents) + 1
    /\ b.generatedEvents[Len(b.generatedEvents)].name = "OrderReplaceRejectEvent"
    /\ b.orders[id].BrokerPrice = b0.orders[id].BrokerPrice

\* C14: a replace request on an active order whose new price is not a valid
\* price (NaN, zero or negative) is answered with OrderReplaceRejectEvent and
\* does not change the order's working price.
C14_InvalidReplaceRejected ==
    \A id \in DOMAIN orders, p \in InvalidPrices, t \in ReqTimes :
        (~panicked /\ isActive(orders[id])) =>
            ReplaceRejectedIn(Worker,
                onReplaceRequest(Worker, OrderReplaceRequestEvent(id, p, t)), id)

\* the trade of tick crosses the working price of limit order o
LimitCrossed(o, tick) ==
    /\ HasTrade(tick)
    /\ \/ o.Side = "B" /\ tick.LastPrice < o.BrokerPrice
       \/ o.Side = "S" /\ tick.LastPrice > o.BrokerPrice
       \/ tick.LastPrice = o.BrokerPrice /\ ~strictLimitOrders

\* what is left of order o, capped by the size of the trade
LimitFillQty(o, tick) ==
    IF tick.LastSize < o.Qty - o.BrokerExecQty THEN tick.LastSize
    ELSE o.Qty - o.BrokerExecQty

\* in worker b, which has just handled tick, the match m of a limit order is
\* what the claim says, and so is the order
LimitMatchedAsSpecified(b, m, tick) ==
    IF LimitCrossed(m.ord, tick)
    THEN /\ Len(m.evs) = 1
         /\ m.evs[1].name = "OrderFillEvent"
         /\ m.evs[1].Price = m.ord.BrokerPrice
         /\ m.evs[1].Qty = LimitFillQty(m.ord, tick)
         /\ b.orders[m.ord.Id].BrokerExecQty = m.ord.BrokerExecQty + LimitFillQty(m.ord, tick)
         /\ b.orders[m.ord.Id].BrokerState =
                IF LimitFillQty(m.ord, tick) < m.ord.Qty - m.ord.BrokerExecQty
                THEN "PartialFilledOrder" ELSE "FilledOrder"
    ELSE /\ m.evs = <<>>
         /\ b.orders[m.ord.Id] = m.ord

\* the orders worker b matched against the market data it handled last
LastMatches(b) == IF b.mdlog = <<>> THEN <<>> ELSE b.mdlog[Len(b.mdlog)].matched

LimitMatchesAsSpecified(b, tick) ==
    (~b.panicked /\ Len(b.mdlog) = Len(mdlog) + 1) =>
        \A k \in DOMAIN LastMatches(b) :
            LastMatches(b)[k].ord.Type = "LimitOrder" =>
                LimitMatchedAsSpecified(b, LastMatches(b)[k], tick)

\* C16: an active limit order matched against a tick is filled only by a
\* trade tick; a buy when last < limit, a sell when last > limit, either at
\* last = limit exactly when strict limit orders are off; the fill price is
\* the working price of the order and the quantity min(leaves, last size);
\* the order is then PartialFilled if that is less than its leaves, else
\* Filled. Checked for the tick that comes next, whatever it is.
C16_LimitOnTick ==
    ~panicked =>
        \A tick \in LimitTicks, t \in Times, ids \in Orderings :
            LimitMatchesAsSpecified(
                onTick(Worker, NewTickEvent([tick EXCEPT !.Datetime = t]), ids), tick)

\* a sell at a replaced price filled in part by a trade at that very price
LimitCase(b, m, tick) ==
    /\ m.ord.Side = "S"
    /\ m.ord.BrokerPrice # m.ord.Price
    /\ tick.LastPrice = m.ord.BrokerPrice
    /\ Len(m.evs) = 1
    /\ b.orders[m.ord.Id].BrokerState = "PartialFilledOrder"

LimitCaseIn(b, tick) ==
    /\ ~b.panicked
    /\ Len(b.mdlog) = Len(mdlog) + 1
    /\ \E k \in DOMAIN LastMatches(b) : LimitCase(b, LastMatches(b)[k], tick)

C16_Witness ==
    /\ ~panicked
    /\ \E tick \in LimitTicks, t \in Times, ids \in Orderings :
            LimitCaseIn(onTick(Worker, NewTickEvent([tick EXCEPT !.Datetime = t]), ids), tick)

\* candle-open events of every timeframe, opening below, at and above price 2
Opens == { CandleOpenEvent(t, price, tf) :
             t \in Times, price \in {1, 2, 3}, tf \in {"M", "H", "D", "W"} }

\* the better of the open and the limit for the side of order o
BetterPrice(o, open) ==
    IF o.Side = "B" THEN (IF open < o.BrokerPrice THEN open ELSE o.BrokerPrice)
    ELSE (IF open > o.BrokerPrice THEN open ELSE o.BrokerPrice)

\* r is a single fill at price
FillAt(r, price) ==
    /\ Len(r.ev) = 1
    /\ r.ev[1].name = "OrderFillEvent"
    /\ r.ev[1].Price = price

\* C17: on a candle open of any timeframe an active buy limit order is filled
\* when open < limit, or open = limit with strict limit orders off, at the
\* price min(open, limit); a sell limit order symmetrically at max(open, limit).
C17_OpenLimitAtBetterPrice ==
    \A id \in DOMAIN orders, e \in Opens :
        ( /\ ~checkExecutionsOnTicks
          /\ isActive(orders[id])
          /\ orders[id].Type = "LimitOrder"
          /\ \/ orders[id].Side = "B" /\ e.Price < orders[id].BrokerPrice
             \/ orders[id].Side = "S" /\ e.Price > orders[id].BrokerPrice
             \/ e.Price = orders[id].BrokerPrice /\ ~strictLimitOrders ) =>
            FillAt(fillOnCandleOpenLimit(Worker, orders[id], e),
                   BetterPrice(orders[id], e.Price))

\* the market-data events that may come next
MdEvents ==
    IF checkExecutionsOnTicks
    THEN { NewTickEvent([tick EXCEPT !.Datetime = t]) : tick \in TickShapes, t \in Times }
    ELSE { CandleOpenEvent(t, price, tf) :
             t \in Times, price \in OpenPrices, tf \in TimeFrames }
         \cup { CandleCloseEvent(t, [c EXCEPT !.Datetime = t - CandleSpan], tf) :
                  t \in Times, c \in CandleShapes, tf \in TimeFrames }

\* the worker after market-data event e
Handled(e, ids) ==
    CASE e.name = "NewTickEvent" -> onTick(Worker, e, ids)
      [] e.name = "CandleOpenEvent" -> onCandleOpen(Worker, e, ids)
      [] e.name = "CandleCloseEvent" -> onCandleClose(Worker, e, ids)

\* the orders as they are when e is matched against them: after the stored
\* requests that are due at the time of e
OrdersAt(e) == proceedStoredRequests(Worker, e.time).orders

\* the events of kind name that worker b has generated for order id since the
\* present state, sent or not
Since(b, name, id) ==
    { x \in Range(b.events) \cup Range(b.generatedEvents) :
        x.name = name /\ x.OrdId = id /\ x.gen > nextGen }

\* worker b has canceled order o at its expiry time, has sent the cancel and
\* has generated no fill for it
CanceledAtExpiry(b, o) ==
    ~b.panicked =>
        /\ b.orders[o.Id].BrokerState = "CanceledOrder"
        /\ b.orders[o.Id].BrokerExecQty = o.BrokerExecQty
        /\ Cardinality(Since(b, "OrderCancelEvent", o.Id)) = 1
        /\ \A x \in Since(b, "OrderCancelEvent", o.Id) :
                x.time = getExpirationTime(o) /\ x \in Range(b.events)
        /\ Since(b, "OrderFillEvent", o.Id) = {}

\* Day order o is active and e comes after the midnight that follows its submission
DayOrderDue(o, e) ==
    /\ o.Tif = "DayTIF"
    /\ isActive(o)
    /\ e.time > getExpirationTime(o)

\* C18: a Day order that is active when market data first arrives
\* after the midnight following its submission is canceled by it: an
\* OrderCancelEvent with the time of that midnight is sent, the order is
\* Canceled and no fill is generated for it.
C18_DayOrderCanceledAfterMidnight ==
    ~panicked =>
        \A e \in MdEvents, ids \in Orderings : \A id \in DOMAIN OrdersAt(e) :
            (DayOrderDue(OrdersAt(e)[id], e) /\ Clock <= getExpirationTime(OrdersAt(e)[id]))
                => CanceledAtExpiry(Handled(e, ids), OrdersAt(e)[id])

\* the requests of kind name for order id that are in flight: sent and not
\* yet answered
InFlight(name, id) ==
    { k \in DOMAIN chEvents : chEvents[k].name = name /\ chEvents[k].OrdId = id }

RequestOf(prefix) ==
    CASE prefix = "$NO$" -> "NewOrderEvent"
      [] prefix = "$CAN$" -> "OrderCancelRequestEvent"
      [] prefix = "$REP$" -> "OrderReplaceRequestEvent"
      [] OTHER -> ""

\* C19: the token recorded in the pending map for a request is removed when
\* the response to that request is handled, so every token in the map
\* belongs to a request that is in flight, and the map is empty when every
\* request has been answered.
C19_TokensOfRequestsInFlight ==
    \A token \in waitingConfirmation : InFlight(RequestOf(token[1]), token[2]) # {}

\* C20: for every order id at most one cancel request and at most one replace
\* request is in flight, and while one is, a further CancelOrder
\* (ReplaceOrder) for that id returns an error and sends nothing.
C20_OneCancelOneReplaceInFlight ==
    \A id \in OrderIds :
        /\ Cardinality(InFlight("OrderCancelRequestEvent", id)) <= 1
        /\ Cardinality(InFlight("OrderReplaceRequestEvent", id)) <= 1
        /\ InFlight("OrderCancelRequestEvent", id) # {} =>
              /\ CancelOrder(Strategy, id).err # ""
              /\ CancelOrder(Strategy, id).s = Strategy
        /\ InFlight("OrderReplaceRequestEvent", id) # {} =>
              \A p \in ReplacePrices :
                  /\ ReplaceOrder(Strategy, id, p).err # ""
                  /\ ReplaceOrder(Strategy, id, p).s = Strategy

\* a confirmed order with a cancel and a replace in flight
C20_Witness ==
    \E id \in OrderIds :
        /\ hasConfirmedOrderWithId(Strategy, id)
        /\ InFlight("OrderCancelRequestEvent", id) # {}
        /\ InFlight("OrderReplaceRequestEvent", id) # {}

(***************************************************************************)
(* BasicStrategy, market data: the tick and candle windows, the history    *)
(* backfill and the user callbacks.  A market-data handler runs in a       *)
(* goroutine that holds b.mut from its first write to its last, and the    *)
(* next market-data handler waits on b.mdChan for it, so here a handler    *)
(* is one step on a record of the fields.                                  *)
(***************************************************************************)
Runtime ==
    [waitingConfirmation |-> waitingConfirmation, waitingN |-> waitingN,
     currentTrade |-> currentTrade, mostRecentTime |-> mostRecentTime,
     chEvents |-> chEvents, chErrors |-> chErrors,
     nPeriods |-> nPeriods, Ticks |-> Ticks, Candles |-> Candles,
     lastCandleOpen |-> lastCandleOpen, lastCandleOpenTime |-> lastCandleOpenTime,
     panicked |-> strategyPanicked, tradeType |-> tradeType, tradeQty |-> tradeQty,
     tradeId |-> tradeId, closedTrades |-> closedTrades,
     chPortfolio |-> chPortfolio, called |-> called]

\* Candle.isValid(): low <= open <= high and low <= close <= high
candleIsValid(c) ==
    /\ FLe(c.Low, c.Open) /\ FLe(c.Open, c.High)
    /\ FLe(c.Low, c.Close) /\ FLe(c.Close, c.High)

\* sort.SliceStable with less(i, j) = w[i].Datetime.Unix() < w[j].Datetime.Unix()
RECURSIVE InsertStable(_, _)
InsertStable(w, x) ==
    IF w = << >> \/ Unix(w[Len(w)].Datetime) <= Unix(x.Datetime) THEN Append(w, x)
    ELSE Append(InsertStable(SubSeq(w, 1, Len(w) - 1), x), w[Len(w)])

RECURSIVE SliceStable(_)
SliceStable(w) ==
    IF w = << >> THEN w
    ELSE InsertStable(SliceStable(SubSeq(w, 1, Len(w) - 1)), w[Len(w)])

\* w[len(w)-n:] when len(w) > n, else w
LastN(w, n) == IF Len(w) > n THEN SubSeq(w, Len(w) - n + 1, Len(w)) ELSE w

updateLastCandleOpen(r) ==
    IF Len(r.Candles) = 0 THEN r
    ELSE LET lastCandleInHist == r.Candles[Len(r.Candles)]
         IN  IF lastCandleInHist.Datetime > r.lastCandleOpenTime
             THEN [r EXCEPT !.lastCandleOpen = lastCandleInHist.Open,
                            !.lastCandleOpenTime = lastCandleInHist.Datetime]
             ELSE r

\* a variant that never drops the oldest element
putWindowGrow(w, x, n) == Append(w, x)

\* the window after put: appended while short, else shifted, and sorted only
\* on the shifted path
putWindow(w, x, n) ==
    LET sortIt == Len(w) > 0 /\ x.Datetime < w[Len(w)].Datetime
    IN  IF Len(w) < n THEN Append(w, x)
        ELSE IF sortIt THEN SliceStable(Append(Tail(w), x))
        ELSE Append(Tail(w), x)

putNewCandle(r, candle) ==
    updateLastCandleOpen([r EXCEPT !.Candles = putWindow(@, candle, r.nPeriods)])

putNewTick(r, tick) == [r EXCEPT !.Ticks = putWindow(@, tick, r.nPeriods)]

IsOpen(r) == r.tradeType \in {"LongTrade", "ShortTrade"}

\* Trade.updatePnL(price, time): an error for a price that is not a number
updatePnL(r, price) ==
    IF ~IsOpen(r) THEN r
    ELSE IF IsNaN(price) THEN newStrategyError(r, "ErrUpdatePnL")
    ELSE r

seen(r, t) == [r EXCEPT !.mostRecentTime = IF t > @ THEN t ELSE @]

callback(r, cb, w) == [r EXCEPT !.called = Append(@, [cb |-> cb, size |-> Len(w)])]

onCandleCloseHandler(r, e) ==
    LET r1 == seen(r, e.time)
    IN  IF ~candleIsValid(e.Candle) THEN r1
        ELSE LET r2 == updatePnL(putNewCandle(r1, e.Candle), e.Candle.Close)
             IN  IF Len(r2.Candles) < r2.nPeriods THEN r2
                 ELSE callback(r2, "OnCandleClose", r2.Candles)

onCandleOpenHandler(r, e) ==
    LET r1 == seen(r, e.CandleTime)
        r2 == IF ~(e.CandleTime < r1.lastCandleOpenTime)
              THEN [r1 EXCEPT !.lastCandleOpen = e.Price,
                              !.lastCandleOpenTime = e.CandleTime]
              ELSE r1
    IN  callback(updatePnL(r2, e.Price), "OnCandleOpen", r2.Candles)

onTickHandler(r, e) ==
    IF ~TickIsValid(e.Tick) THEN r
    ELSE LET r1 == updatePnL(putNewTick(seen(r, e.Tick.Datetime), e.Tick),
                             e.Tick.LastPrice)
         IN  IF Len(r1.Ticks) < r1.nPeriods THEN r1
             ELSE callback(r1, "OnTick", r1.Ticks)

\* the candles of all that are valid and the first of their Datetime
RECURSIVE checkedCandles(_, _)
checkedCandles(all, kept) ==
    IF all = << >> THEN kept
    ELSE LET v == Head(all)
         IN  IF ~candleIsValid(v) \/ \E i \in 1..Len(kept) : kept[i].Datetime = v.Datetime
             THEN checkedCandles(Tail(all), kept)
             ELSE checkedCandles(Tail(all), Append(kept, v))

onCandleHistoryHandler(r, e) ==
    IF Len(e.Candles) = 0 THEN r
    ELSE updateLastCandleOpen(
             [r EXCEPT !.Candles =
                 LastN(SliceStable(checkedCandles(r.Candles \o e.Candles, << >>)),
                       r.nPeriods)])

onTickHistoryHandler(r, e) ==
    IF Len(e.Ticks) = 0 THEN r
    ELSE [r EXCEPT !.Ticks =
             LastN(SliceStable(SelectSeq(r.Ticks \o e.Ticks, TickIsValid)), r.nPeriods)]

(***************************************************************************)
(* BasicStrategy, fills.  The Trade type is declared outside this          *)
(* package part: executeOrder follows the trade engine's contract.         *)
(***************************************************************************)
\* the side of the order a fill names: order "a" buys, every other sells
FillSide(ordId) == IF ordId = "a" THEN "B" ELSE "S"

\* a working order holds what it has executed in its state
ExecQty(state) == IF state = "PartialFilledOrder" THEN 1 ELSE 0

\* the quantity of every order: one more fill of one lot fills a
\* partially filled order
FillOrderQty == ExecQty("PartialFilledOrder") + 1

NoTrade == [type |-> "", qty |-> 0]

\* what executeOrder returns: the strategy after it, the new trade or NoTrade
\* for nil, and the error ("" for nil)
Executed(r, newPos, err) == [r |-> r, newPos |-> newPos, err |-> err]

\* a variant that applies a fill of any quantity at any price
executeOrderUnchecked(r, e) ==
    Executed([r EXCEPT !.tradeType = IF FillSide(e.OrdId) = "B" THEN "LongTrade"
                                      ELSE "ShortTrade",
                       !.tradeQty = e.Qty], NoTrade, "")

\* Trade.executeOrder(id, qty, price, time)
executeOrder(r, e) ==
    LET known == e.OrdId \in DOMAIN r.currentTrade
                 /\ r.currentTrade[e.OrdId] \in {"ConfirmedOrder", "PartialFilledOrder"}
        side == IF FillSide(e.OrdId) = "B" THEN "LongTrade" ELSE "ShortTrade"
        opposite == IF side = "LongTrade" THEN "ShortTrade" ELSE "LongTrade"
    IN  IF r.tradeType = "ClosedTrade" THEN Executed(r, NoTrade, "ErrTradeClosed")
        ELSE IF ~known THEN Executed(r, NoTrade, "ErrOrderNotFound")
        ELSE IF e.Qty <= 0 THEN Executed(r, NoTrade, "ErrFillQty")
        ELSE IF IsNaN(e.Price) \/ e.Price <= 0 THEN Executed(r, NoTrade, "ErrFillPrice")
        ELSE IF ExecQty(r.currentTrade[e.OrdId]) + e.Qty > FillOrderQty
             THEN Executed(r, NoTrade, "ErrFillQty")
        ELSE LET r1 == [r EXCEPT !.currentTrade[e.OrdId] =
                            IF ExecQty(@) + e.Qty = FillOrderQty
                            THEN "FilledOrder" ELSE "PartialFilledOrder"]
             IN  IF r.tradeType = "FlatTrade"
                 THEN Executed([r1 EXCEPT !.tradeType = side, !.tradeQty = e.Qty],
                               NoTrade, "")
                 ELSE IF r.tradeType = side
                 THEN Executed([r1 EXCEPT !.tradeQty = @ + e.Qty], NoTrade, "")
                 ELSE IF e.Qty < r.tradeQty
                 THEN Executed([r1 EXCEPT !.tradeQty = @ - e.Qty], NoTrade, "")
                 ELSE Executed([r1 EXCEPT !.tradeType = "ClosedTrade", !.tradeQty = 0],
                               [type |-> IF e.Qty = r.tradeQty THEN "FlatTrade" ELSE side,
                                qty |-> e.Qty - r.tradeQty], "")

PortfolioNewPositionEvent(t, r) ==
    [name |-> "PortfolioNewPositionEvent", time |-> t, trade |-> r.tradeId]

\* a variant that tells the portfolio nothing
notifyPortfolioNobody(r, t) == r

notifyPortfolioAboutPosition(r, t) ==
    [r EXCEPT !.chPortfolio = Append(@, PortfolioNewPositionEvent(t, r))]

\* the symbol of the strategy's instrument
Symbol == "SYM"

onOrderFillHandler(r, e) ==
    LET r1 == seen(r, e.time)
        r2 == IF e.Ticker # Symbol THEN newStrategyError(r1, "ErrMismatchSymbols") ELSE r1
        r3 == IF e.Qty <= 0 THEN newStrategyError(r2, "ErrExecutionQty") ELSE r2
        r4 == IF IsNaN(e.Price) \/ e.Price <= 0
              THEN newStrategyError(r3, "ErrExecutionPrice") ELSE r3
        prevState == r4.tradeType
        x == executeOrder(r4, e)
    IN  IF x.err # "" THEN newStrategyError(x.r, x.err)
        ELSE IF x.newPos # NoTrade
        THEN IF x.r.tradeType # "ClosedTrade"
             THEN newStrategyError(x.r, "ErrPreviousNotClosed")
             ELSE notifyPortfolioAboutPosition(
                      [x.r EXCEPT !.closedTrades = Append(@, x.r.tradeId),
                                  !.tradeType = x.newPos.type,
                                  !.tradeQty = x.newPos.qty,
                                  !.tradeId = @ + 1], e.time)
        ELSE IF prevState = "FlatTrade" THEN notifyPortfolioAboutPosition(x.r, e.time)
        ELSE x.r

OrderFillEvent(t, ticker, ordId, price, qty) ==
    [name |-> "OrderFillEvent", time |-> t, Ticker |-> ticker, OrdId |-> ordId,
     Price |-> price, Qty |-> qty]
TickHistoryEvent(t, ticks) == [name |-> "TickHistoryEvent", time |-> t, Ticks |-> ticks]
CandlesHistoryEvent(t, candles) ==
    [name |-> "CandlesHistoryEvent", time |-> t, Candles |-> candles]

\* BasicStrategy.notify(e): proxyEvent with the market data and the fill; an
\* event type it has no case for is a panic
BasicStrategyNotify(r, e) ==
    CASE e.name = "NewTickEvent" -> onTickHandler(r, e)
      [] e.name = "TickHistoryEvent" -> onTickHistoryHandler(r, e)
      [] e.name = "CandleCloseEvent" -> onCandleCloseHandler(r, e)
      [] e.name = "CandleOpenEvent" -> onCandleOpenHandler(r, e)
      [] e.name = "OrderFillEvent" -> onOrderFillHandler(r, e)
      [] e.name \in {"OrderCancelEvent", "OrderCancelRejectEvent",
                     "OrderConfirmationEvent", "OrderReplacedEvent",
                     "OrderReplaceRejectEvent", "OrderRejectedEvent"} -> proxyEvent(r, e)
      [] OTHER -> [r EXCEPT !.panicked = TRUE]

(***************************************************************************)
(* Runs of the strategy runtime.                                           *)
(***************************************************************************)
RtTimes == 1..MaxRtTime
Periods == 1..MaxPeriods

\* a trade tick, and one with a zero last price
RtTicks ==
    { Tick(t, last, 1, NaN, 0, NaN, 0, FALSE, FALSE) : t \in RtTimes, last \in {0, 2} }

\* a candle, and one that opens above its high
RtCandles == { Candle(t, o, 3, 1, 2, FALSE, FALSE) : t \in RtTimes, o \in {2, 4} }

SeqsUpTo(S, n) == UNION { [1..k -> S] : k \in 1..n }

InstallFields(r) ==
    /\ waitingConfirmation' = r.waitingConfirmation
    /\ waitingN' = r.waitingN
    /\ currentTrade' = r.currentTrade
    /\ mostRecentTime' = r.mostRecentTime
    /\ chEvents' = r.chEvents
    /\ chErrors' = r.chErrors
    /\ Ticks' = r.Ticks
    /\ Candles' = r.Candles
    /\ lastCandleOpen' = r.lastCandleOpen
    /\ lastCandleOpenTime' = r.lastCandleOpenTime
    /\ strategyPanicked' = r.panicked
    /\ tradeType' = r.tradeType
    /\ tradeQty' = r.tradeQty
    /\ tradeId' = r.tradeId
    /\ closedTrades' = r.closedTrades
    /\ chPortfolio' = r.chPortfolio
    /\ called' = r.called
    /\ UNCHANGED <<btm, calls, checkExecutionsOnTicks, delay, strictLimitOrders, orders,
                   generatedEvents, requestEvents, events, errors, lastTickTime,
                   lastCandleTime, panicked, nextGen, log, mdlog, nReq, nMd, nPeriods,
                   shutDownReturned>>

InstallRuntime(r) == InstallFields(r) /\ UNCHANGED <<mdChan, mut, handlers>>

\* e is passed to notify and its handler runs
Deliver(e, max) ==
    /\ notified.n < max
    /\ ~strategyPanicked
    /\ InstallRuntime(BasicStrategyNotify([Runtime EXCEPT !.called = << >>], e))
    /\ notified' = [n |-> notified.n + 1, latest |-> Max(notified.latest, e.time)]

RtNotifyTick == \E tick \in RtTicks : Deliver(NewTickEvent(tick), MaxNotified)

RtNotifyCandleClose ==
    \E c \in RtCandles : Deliver(CandleCloseEvent(c.Datetime, c, "D"), MaxNotified)

RtNotifyCandleOpen ==
    \E t \in RtTimes : Deliver(CandleOpenEvent(t, 2, "D"), MaxNotified)

RtNotifyTickHistory ==
    \E t \in RtTimes, h \in SeqsUpTo(RtTicks, MaxHistory) :
        Deliver(TickHistoryEvent(t, h), MaxNotified)

RtNotifyCandlesHistory ==
    \E h \in SeqsUpTo(RtCandles, MaxHistory) :
        Deliver(CandlesHistoryEvent(mostRecentTime, h), MaxNotified)

\* a broker response for an order of the strategy, or for one it never sent
RtNotifyResponse ==
    \E t \in RtTimes, name \in {"OrderConfirmationEvent", "OrderCancelEvent"} :
        Deliver(Ev(name, t, "a", NaN, 0, ""), MaxNotified)

NextWindows ==
    \/ RtNotifyTick
    \/ RtNotifyCandleClose
    \/ RtNotifyCandleOpen
    \/ RtNotifyTickHistory
    \/ RtNotifyCandlesHistory
    \/ RtNotifyResponse

InitWindows ==
    checkExecutionsOnTicks = TRUE /\ InitWorker /\ InitBasicStrategy /\ nPeriods \in Periods
    /\ btm = NoBTM

\* a run of the strategy runtime on market data, history and responses
SpecWindows == InitWindows /\ [][NextWindows]_vars

(***************************************************************************)
(* The windows.                                                            *)
(***************************************************************************)
\* C21: with a window size of at least one, after any sequence of tick,
\* candle-close, tick-history and candle-history events the tick window and
\* the candle window each hold at most nPeriods elements
C21_WindowsBounded ==
    /\ nPeriods >= 1
    /\ Len(Ticks) <= nPeriods
    /\ Len(Candles) <= nPeriods
    /\ \A h \in SeqsUpTo(RtCandles, MaxHistory) :
           Len(onCandleHistoryHandler(Runtime, CandlesHistoryEvent(0, h)).Candles)
               <= nPeriods

\* four events were handled, the last one a tick put into a full window of two
C21_Witness ==
    /\ nPeriods = 2
    /\ notified.n = MaxNotified
    /\ Len(Candles) = 1
    /\ called = <<[cb |-> "OnTick", size |-> 2]>>
    /\ Ticks[1].Datetime = 2 /\ Ticks[2].Datetime = 3

\* C22: the history load is idempotent: from any window, handling the same
\* TickHistory event, or the same CandleHistory event, twice in a row leaves
\* the window as handling it once does
C22_HistoryLoadIdempotent ==
    /\ \A h \in SeqsUpTo(RtTicks, MaxHistory) :
           LET e == TickHistoryEvent(mostRecentTime, h)
               once == onTickHistoryHandler(Runtime, e)
           IN  onTickHistoryHandler(once, e).Ticks = once.Ticks
    /\ \A h \in SeqsUpTo(RtCandles, MaxHistory) :
           LET e == CandlesHistoryEvent(mostRecentTime, h)
               once == onCandleHistoryHandler(Runtime, e)
           IN  onCandleHistoryHandler(once, e).Candles = once.Candles

Ordered(w) == \A i, j \in 1..Len(w) : i < j => w[i].Datetime <= w[j].Datetime

\* C23: an out-of-order tick or candle is sorted into its window: after every
\* market-data event the tick window and the candle window are ordered by
\* non-decreasing datetime, whether or not the window has nPeriods elements
C23_WindowsOrdered == Ordered(Ticks) /\ Ordered(Candles)

\* C24: a user callback (OnTick, OnCandleOpen, OnCandleClose) runs for a
\* market-data event only when its window holds at least nPeriods elements
\* after the event was appended
C24_CallbackOnlyWhenFull ==
    \A i \in 1..Len(called) : called[i].size >= nPeriods

\* C25: the most recent time of the strategy runtime never decreases: after
\* any sequence of market-data and broker-response events, in any order of
\* timestamps, it is the maximum timestamp of the events handled so far, or
\* its initial value
C25_MostRecentTimeIsLatest == mostRecentTime = notified.latest

(***************************************************************************)
(* Fills.                                                                  *)
(***************************************************************************)
\* the user strategy submits order id, of FillOrderQty lots at the market
RtNewOrder ==
    \E id \in OrderIds \ DOMAIN currentTrade :
        /\ ~strategyPanicked
        /\ InstallRuntime(newOrder(Runtime,
               Order(id, FillSide(id), FillOrderQty, "MarketOrder", NaN, "GTCTIF",
                     mostRecentTime)).s)
        /\ notified' = notified

\* the broker confirms a new order
RtNotifyConfirmation ==
    \E id \in DOMAIN currentTrade :
        /\ currentTrade[id] = "NewOrder"
        /\ Deliver(Ev("OrderConfirmationEvent", Max(mostRecentTime, 1), id, NaN, 0, ""),
                   MaxFills)

FillEvents ==
    { OrderFillEvent(t, ticker, id, price, qty) :
        t \in {Max(mostRecentTime, 1)}, ticker \in {Symbol, "OTHER"}, id \in OrderIds,
        price \in {NaN, 0, 2}, qty \in {-1, 0, 1, 2} }

RtNotifyFill == \E e \in FillEvents : Deliver(e, MaxFills)

NextFills == RtNewOrder \/ RtNotifyConfirmation \/ RtNotifyFill

\* a run of the strategy runtime on two orders and their fills
InitFills == InitTick /\ ~strictLimitOrders

SpecFills == InitFills /\ [][NextFills]_vars

InvalidFill(e) == e.Qty <= 0 \/ IsNaN(e.Price) \/ e.Price <= 0

C29_PositionChangeEvents ==
    /\ tradeId >= 1
    /\ \A e \in FillEvents :
           LET x == executeOrder(Runtime, e)
               r == onOrderFillHandler(Runtime, e)
               emitted == Len(r.chPortfolio) - Len(chPortfolio)
               opens == x.err = "" /\ tradeType = "FlatTrade"
               closes == x.err = "" /\ x.r.tradeType = "ClosedTrade"
           IN  /\ r.tradeId >= 1
               /\ opens => /\ emitted = 1
                           /\ r.tradeType \in {"LongTrade", "ShortTrade"}
                           /\ r.tradeId = tradeId
                           /\ r.closedTrades = closedTrades
               /\ closes => /\ emitted = 1
                            /\ r.closedTrades = Append(closedTrades, tradeId)
                            /\ r.tradeId # tradeId
                            /\ \A i \in 1..Len(closedTrades) : r.tradeId # closedTrades[i]
                            /\ r.chPortfolio[Len(r.chPortfolio)].trade = r.tradeId
               /\ ~opens /\ ~closes => /\ emitted = 0
                                       /\ r.tradeId = tradeId
                                       /\ r.closedTrades = closedTrades

\* a long trade of one lot was closed by a sale of two, and the short trade of
\* the residual lot is current: two position-change events so far
C29_Witness ==
    /\ closedTrades = <<1>>
    /\ tradeId = 2 /\ tradeType = "ShortTrade" /\ tradeQty = 1
    /\ Len(chPortfolio) = 2
    /\ chPortfolio[2].trade = 2

(***************************************************************************)
(* Broken ticks at the broker.                                             *)
(***************************************************************************)
\* ticks that are not valid: a zero last price, and neither trade nor quote
BrokenTicks ==
    { Tick(0, 0, 1, NaN, 0, NaN, 0, FALSE, FALSE),
      Tick(0, NaN, 0, NaN, 0, NaN, 0, FALSE, FALSE) }

NotifyBrokenTick ==
    \E tick \in BrokenTicks, t \in Times, ids \in Orderings :
        /\ ~panicked
        /\ nMd < MaxMd
        /\ Install(onTick(Worker, NewTickEvent([tick EXCEPT !.Datetime = t]), ids))
        /\ nMd' = nMd + 1
        /\ UNCHANGED nReq

NextBrokenTick ==
    \/ NextRequest
    \/ NotifyTick
    \/ NotifyBrokenTick

\* a run on ticks, some of them broken
SpecBrokenTick == InitTick /\ [][NextBrokenTick]_vars

\* b1 is b with one more error, ErrBrokenTick, and nothing else changed
DroppedWithError(b, b1) == b1 = [b EXCEPT !.errors = Append(@, "ErrBrokenTick")]

\* b2, the worker after a valid tick that followed a broken one, is what the
\* tick alone makes of the worker (b3), with the error of the broken one
\* before those of the tick
AsIfNeverSent(b, b2, b3) ==
    /\ [b2 EXCEPT !.errors = << >>] = [b3 EXCEPT !.errors = << >>]
    /\ b2.errors = Append(b.errors, "ErrBrokenTick")
                      \o SubSeq(b3.errors, Len(b.errors) + 1, Len(b3.errors))

LaterTicksNormal(b, b1) ==
    \A tick \in TickShapes, t \in Times, ids \in Orderings :
        AsIfNeverSent(b, onTick(b1, NewTickEvent([tick EXCEPT !.Datetime = t]), ids),
                      onTick(b, NewTickEvent([tick EXCEPT !.Datetime = t]), ids))

\* C30: on a broken tick the broker worker surfaces exactly one error and
\* drops the event: it is not forwarded, no stored request is processed, no
\* order changes, no broker event is generated or released and the time of
\* the last tick stays; valid ticks that follow are processed as if the
\* broken one had never come
C30_BrokenTickDropped ==
    /\ \A tick \in BrokenTicks, t \in Times, ids \in Orderings :
           DroppedWithError(Worker,
               onTick(Worker, NewTickEvent([tick EXCEPT !.Datetime = t]), ids))
    /\ LaterTicksNormal(Worker,
           onTick(Worker, NewTickEvent(Tick(Midnight + After, 0, 1, NaN, 0, NaN, 0,
                                            FALSE, FALSE)),
                  CHOOSE ids \in Orderings : TRUE))

\* a broken tick was reported, a request waits in the queue and a broker
\* event waits for a later tick
C30_Witness ==
    /\ \E i \in 1..Len(errors) : errors[i] = "ErrBrokenTick"
    /\ Len(requestEvents) > 0
    /\ Len(generatedEvents) > 0

(***************************************************************************)
(* End of data at the broker.                                              *)
(***************************************************************************)
\* simBrokerWorker.shutDown(): waits for the goroutines of newError, which
\* here have sent their error when newError returns
shutDown(b) == b

\* the data has ended and SimBroker.shutDown is called
ShutDown ==
    /\ ~panicked
    /\ ~shutDownReturned
    /\ InstallWorker(shutDown(Worker))
    /\ shutDownReturned' = TRUE
    /\ UNCHANGED <<btm, calls, checkExecutionsOnTicks, delay, strictLimitOrders, strategyVars,
                   nReq, nMd, nPeriods, Ticks, Candles, lastCandleOpen,
                   lastCandleOpenTime, strategyPanicked, tradeType, tradeQty, tradeId,
                   closedTrades, chPortfolio, mdChan, mut, handlers, called, notified>>

\* the EndOfDataEvent itself is passed to simBrokerWorker.notify, which has
\* no case for it
NotifyEndOfData ==
    /\ ~panicked
    /\ ~shutDownReturned
    /\ Install(Panic(Worker))
    /\ UNCHANGED <<nReq, nMd>>

NextShutDown ==
    \/ ~shutDownReturned /\ NextTick
    \/ NotifyEndOfData
    \/ ShutDown

\* a run on ticks up to the end of the data
InitShutDown == InitTick /\ ~strictLimitOrders

SpecShutDown == InitShutDown /\ [][NextShutDown]_vars

\* C27: once the data has ended and shutDown has returned, the broker worker
\* holds no generated event that it has not sent on and no request that it
\* has not processed, and every goroutine it spawned has finished
C27_FlushedAfterShutDown ==
    shutDownReturned => generatedEvents = << >> /\ requestEvents = << >>

(***************************************************************************)
(* The handlers of BasicStrategy as threads.  notify is called by one      *)
(* thread, one event after the other.  For market data it takes the event  *)
(* out of mdChan, starts a goroutine and returns; the goroutine locks mut, *)
(* works, unlocks and puts an event back into mdChan.  For a broker        *)
(* response notify itself locks mut, works and unlocks before it returns.  *)
(***************************************************************************)
Handler(kind, e, pc) == [kind |-> kind, e |-> e, pc |-> pc]

\* the thread that calls notify is inside a response handler
CallerBusy == \E i \in DOMAIN handlers :
                 handlers[i].kind = "response" /\ handlers[i].pc \in {"called", "locked"}

Start(kind, e) ==
    /\ notified.n < MaxHandlers
    /\ ~strategyPanicked
    /\ ~CallerBusy
    /\ handlers' = Append(handlers, Handler(kind, e, "called"))
    /\ notified' = [n |-> notified.n + 1, latest |-> Max(notified.latest, e.time)]

\* notify(e) for a tick or a closed candle: <-b.mdChan, go func()
NotifyMd ==
    \E e \in { NewTickEvent(tick) : tick \in { x \in RtTicks : TickIsValid(x) } }
             \cup { CandleCloseEvent(c.Datetime, c, "D") :
                      c \in { x \in RtCandles : candleIsValid(x) } } :
        /\ mdChan > 0
        /\ mdChan' = mdChan - 1
        /\ Start("md", e)
        /\ UNCHANGED <<btm, calls, checkExecutionsOnTicks, delay, strictLimitOrders, orders,
                       generatedEvents, requestEvents, events, errors, lastTickTime,
                       lastCandleTime, panicked, nextGen, log, mdlog, nReq, nMd,
                       strategyVars, nPeriods, Ticks, Candles, lastCandleOpen,
                       lastCandleOpenTime, strategyPanicked, tradeType, tradeQty,
                       tradeId, closedTrades, chPortfolio, shutDownReturned, mut,
                       called>>

\* notify(e) for a broker response: the handler is entered
NotifyBrokerResponse ==
    \E t \in RtTimes, name \in {"OrderConfirmationEvent", "OrderCancelEvent"} :
        /\ Start("response", Ev(name, t, "a", NaN, 0, ""))
        /\ UNCHANGED <<btm, calls, checkExecutionsOnTicks, delay, strictLimitOrders, orders,
                       generatedEvents, requestEvents, events, errors, lastTickTime,
                       lastCandleTime, panicked, nextGen, log, mdlog, nReq, nMd,
                       strategyVars, nPeriods, Ticks, Candles, lastCandleOpen,
                       lastCandleOpenTime, strategyPanicked, tradeType, tradeQty,
                       tradeId, closedTrades, chPortfolio, shutDownReturned, mdChan,
                       mut, called>>

\* b.mut.Lock() of handler i
Lock(i) ==
    /\ handlers[i].pc = "called"
    /\ mut = 0
    /\ mut' = i
    /\ handlers' = [handlers EXCEPT ![i].pc = "locked"]
    /\ UNCHANGED <<btm, calls, checkExecutionsOnTicks, delay, strictLimitOrders, orders,
                   generatedEvents, requestEvents, events, errors, lastTickTime,
                   lastCandleTime, panicked, nextGen, log, mdlog, nReq, nMd,
                   strategyVars, nPeriods, Ticks, Candles, lastCandleOpen,
                   lastCandleOpenTime, strategyPanicked, tradeType, tradeQty,
                   tradeId, closedTrades, chPortfolio, shutDownReturned, mdChan,
                   called, notified>>

\* handler i writes what it has to write and unlocks b.mut
Unlock(i) ==
    /\ handlers[i].pc = "locked"
    /\ mut' = 0
    /\ handlers' = [handlers EXCEPT ![i].pc =
                       IF handlers[i].kind = "md" THEN "unlocked" ELSE "done"]
    /\ InstallFields(BasicStrategyNotify([Runtime EXCEPT !.called = << >>],
                                         handlers[i].e))
    /\ UNCHANGED <<mdChan, notified>>

\* the goroutine of handler i ends: handlersWaitGroup.Done(), b.mdChan <- e
Finish(i) ==
    /\ handlers[i].pc = "unlocked"
    /\ handlers' = [handlers EXCEPT ![i].pc = "done"]
    /\ mdChan' = mdChan + 1
    /\ UNCHANGED <<btm, calls, checkExecutionsOnTicks, delay, strictLimitOrders, orders,
                   generatedEvents, requestEvents, events, errors, lastTickTime,
                   lastCandleTime, panicked, nextGen, log, mdlog, nReq, nMd,
                   strategyVars, nPeriods, Ticks, Candles, lastCandleOpen,
                   lastCandleOpenTime, strategyPanicked, tradeType, tradeQty,
                   tradeId, closedTrades, chPortfolio, shutDownReturned, mut,
                   called, notified>>

NextHandlers ==
    \/ NotifyMd
    \/ NotifyBrokerResponse
    \/ \E i \in DOMAIN handlers : Lock(i)
    \/ \E i \in DOMAIN handlers : Unlock(i)
    \/ \E i \in DOMAIN handlers : Finish(i)

\* a run of the handlers, step by step
InitHandlers == InitTick /\ ~strictLimitOrders

SpecHandlers == InitHandlers /\ [][NextHandlers]_vars

Entered(i) == handlers[i].pc \in {"locked", "unlocked", "done"}
Left(i) == handlers[i].pc \in {"unlocked", "done"}

\* C26: events take effect in the order of the calls of notify: the handler
\* of a market-data event has left its critical section before the handler
\* of any later event, market data or broker response, enters its own, and
\* no two handlers are inside at once
C26_EffectsInNotifyOrder ==
    /\ \A i, j \in DOMAIN handlers :
           i < j /\ handlers[i].kind = "md" /\ Entered(j) => Left(i)
    /\ \A i, j \in DOMAIN handlers :
           Entered(i) /\ ~Left(i) /\ Entered(j) /\ ~Left(j) => i = j

(***************************************************************************)
(* Market data that travels backward.                                      *)
(***************************************************************************)
\* the time the worker compares a market-data event with
LastSeen(e) == IF e.name = "NewTickEvent" THEN lastTickTime ELSE lastCandleTime

\* b1 is the worker stopped by a panic, with nothing else changed
AbortedUntouched(b1) == b1 = Panic(Worker)

\* b1 has taken e in: it is the last market-data event handled, unless the
\* handling ran into a panic of its own
TakenIn(b1, e) ==
    \/ b1.panicked /\ b1 # Panic(Worker)
    \/ /\ ~b1.panicked
       /\ Len(b1.mdlog) = Len(mdlog) + 1
       /\ b1.mdlog[Len(b1.mdlog)].md.name = e.name
       /\ b1.mdlog[Len(b1.mdlog)].md.time = e.time

\* C31: market data that travels backward is fatal for the broker worker: a
\* valid tick earlier than the last tick, or a candle event earlier than the
\* last candle event, ends the run in a panic before a request is processed
\* or an event is emitted; an event at the time of the last one is accepted
C31_BackwardMarketDataIsFatal ==
    panicked \/
    \A e \in MdEvents, ids \in Orderings :
        /\ e.time < LastSeen(e) => AbortedUntouched(Handled(e, ids))
        /\ e.time = LastSeen(e) => TakenIn(Handled(e, ids), e)

\* ticks were seen up to the last time there is, one request waits in the
\* queue and one broker event waits for its time
C31_Witness ==
    /\ ~panicked
    /\ checkExecutionsOnTicks
    /\ lastTickTime = Midnight + After
    /\ Len(requestEvents) > 0
    /\ Len(generatedEvents) > 0

\* r is r0 after a bulk load: no panic, no user callback
LoadedQuietly(r0, r) == r.panicked = r0.panicked /\ r.called = << >>

\* C32: a TickHistory event and a CandleHistory event passed to notify are
\* each loaded in bulk into their window (merged, candles without a second
\* one of the same datetime, sorted, cut to the last nPeriods); neither ends
\* the run nor invokes a user callback
C32_HistoryEventsAreLoaded ==
    strategyPanicked \/
    /\ \A h \in SeqsUpTo(RtTicks, MaxHistory) :
           LET r == BasicStrategyNotify([Runtime EXCEPT !.called = << >>],
                                        TickHistoryEvent(mostRecentTime, h))
           IN  /\ LoadedQuietly(Runtime, r)
               /\ r.Ticks = LastN(SliceStable(SelectSeq(Ticks \o h, TickIsValid)),
                                  nPeriods)
    /\ \A h \in SeqsUpTo(RtCandles, MaxHistory) :
           LET r == BasicStrategyNotify([Runtime EXCEPT !.called = << >>],
                                        CandlesHistoryEvent(mostRecentTime, h))
           IN  /\ LoadedQuietly(Runtime, r)
               /\ r.Candles = LastN(SliceStable(checkedCandles(Candles \o h, << >>)),
                                    nPeriods)

(***************************************************************************)
(* The market-data producer BTM: prepare merges the stored ticks of the     *)
(* producer's symbols into one chronologically sorted file, named by a      *)
(* hash of the sorted symbols; Run replays the file on the event channel    *)
(* and closes the channel after the last record.                            *)
(***************************************************************************)
MaxSymbols == 3
MaxStored == 2

\* the symbols of the stored data, in the order strings are sorted
BtmSymbols == <<"S1", "S2">>

SymbolCode(sym) == CHOOSE n \in DOMAIN BtmSymbols : BtmSymbols[n] = sym

\* sort.Strings(symbols)
RECURSIVE InsertSymbol(_, _)
InsertSymbol(s, sym) ==
    IF s = << >> THEN <<sym>>
    ELSE IF SymbolCode(sym) < SymbolCode(Head(s)) THEN <<sym>> \o s
    ELSE <<Head(s)>> \o InsertSymbol(Tail(s), sym)

RECURSIVE SortStrings(_)
SortStrings(s) ==
    IF s = << >> THEN << >> ELSE InsertSymbol(SortStrings(Tail(s)), Head(s))

\* a hash without collisions on the symbol lists of a run: the symbols' codes
\* read as the digits of a number
RECURSIVE HashOf(_, _)
HashOf(s, h) ==
    IF s = << >> THEN h
    ELSE HashOf(Tail(s), h * (Len(BtmSymbols) + 1) + SymbolCode(Head(s)))

\* the name hashed from the symbols in the order given
getFilenameUnsorted(symbols) == HashOf(symbols, 1)

\* BTM.getFilename: the hash of the sorted symbols
getFilename(symbols) == HashOf(SortStrings(symbols), 1)

\* Storage.GetStoredTicks for each symbol of the producer, in the symbols' order
RECURSIVE loadTicks(_, _)
loadTicks(symbols, storage) ==
    IF symbols = << >> THEN << >>
    ELSE [n \in DOMAIN storage[Head(symbols)] |->
              [Symbol |-> Head(symbols), Datetime |-> storage[Head(symbols)][n]]]
         \o loadTicks(Tail(symbols), storage)

RECURSIVE InsertByTime(_, _)
InsertByTime(s, x) ==
    IF s = << >> THEN <<x>>
    ELSE IF x.Datetime < Head(s).Datetime THEN <<x>> \o s
    ELSE <<Head(s)>> \o InsertByTime(Tail(s), x)

\* the records as loaded, symbol after symbol
sortNothing(s) == s

\* the records in chronological order
RECURSIVE sortByTime(_)
sortByTime(s) ==
    IF s = << >> THEN << >>
    ELSE InsertByTime(sortByTime(SubSeq(s, 1, Len(s) - 1)), s[Len(s)])

\* BTM.prepare: writes the prepared-data file
prepare(b) ==
    [b EXCEPT !.filename = getFilename(b.Symbols),
              !.file = sortByTime(loadTicks(b.Symbols, b.storage)),
              !.state = "prepared"]

\* BTM.Run: starts the replay of the prepared file
Run(b) == [b EXCEPT !.read = 0, !.state = "running"]

\* the replay sends the next record of the file as a tick event
emit(b) ==
    [b EXCEPT !.read = b.read + 1,
              !.eventChan = Append(b.eventChan,
                                   [name |-> "NewTickEvent",
                                    symbol |-> b.file[b.read + 1].Symbol,
                                    time |-> b.file[b.read + 1].Datetime])]

\* EndOfData closes the event channel
endOfData(b) == [b EXCEPT !.state = "closed"]

BrokerIdle ==
    UNCHANGED <<calls, checkExecutionsOnTicks, delay, strictLimitOrders, orders,
                generatedEvents, requestEvents, events, errors, lastTickTime,
                lastCandleTime, panicked, nextGen, log, mdlog, nReq, nMd,
                strategyVars, runtimeVars>>

BtmPrepare == btm.state = "connected" /\ btm' = prepare(btm) /\ BrokerIdle

BtmRun == btm.state = "prepared" /\ btm' = Run(btm) /\ BrokerIdle

BtmEmit ==
    /\ btm.state = "running"
    /\ btm.read < Len(btm.file)
    /\ btm' = emit(btm)
    /\ BrokerIdle

BtmEndOfData ==
    /\ btm.state = "running"
    /\ btm.read = Len(btm.file)
    /\ btm' = endOfData(btm)
    /\ BrokerIdle

NextBTM == BtmPrepare \/ BtmRun \/ BtmEmit \/ BtmEndOfData

\* BTM.Connect on a producer with some symbols whose ticks are stored
InitBTM ==
    /\ InitRun /\ ~strictLimitOrders
    /\ \E symbols \in SeqsUpTo(Range(BtmSymbols), MaxSymbols) \ {<< >>},
          storage \in [Range(BtmSymbols) -> SeqsUpTo(RtTimes, MaxStored)] :
          btm = [NoBTM EXCEPT !.Symbols = symbols, !.storage = storage]

\* a run of the market-data producer
SpecBTM == InitBTM /\ [][NextBTM]_vars

TimesNeverDecrease(s) == \A i, j \in DOMAIN s : i <= j => s[i] <= s[j]

\* C33: the prepared file's records are in non-decreasing time order and no
\* error is reported; the events Run has put on the event channel are the
\* file's records in the file's order, so their times never decrease, and
\* once the channel is closed it holds the whole file and nothing more
C33_ReplayIsChronological ==
    /\ btm.errChan = << >>
    /\ TimesNeverDecrease([n \in DOMAIN btm.file |-> btm.file[n].Datetime])
    /\ TimesNeverDecrease([n \in DOMAIN btm.eventChan |-> btm.eventChan[n].time])
    /\ Len(btm.eventChan) <= Len(btm.file)
    /\ \A n \in DOMAIN btm.eventChan :
           /\ btm.eventChan[n].time = btm.file[n].Datetime
           /\ btm.eventChan[n].symbol = btm.file[n].Symbol
    /\ btm.state = "closed" => Len(btm.eventChan) = Len(btm.file)

\* the replay of two symbols whose stored ticks interleave in time has ended
C33_Witness ==
    /\ btm.state = "closed"
    /\ Len(btm.eventChan) = 2 * MaxStored
    /\ btm.Symbols = <<"S2", "S1">>
    /\ btm.storage["S2"][1] < btm.storage["S1"][1]
    /\ btm.storage["S1"][1] < btm.storage["S2"][2]

SamePermuted(s, t) ==
    /\ Len(s) = Len(t)
    /\ \A sym \in Range(BtmSymbols) :
           Cardinality({n \in DOMAIN s : s[n] = sym})
               = Cardinality({n \in DOMAIN t : t[n] = sym})

\* C34: the name of the prepared file is the name of every permutation of
\* the producer's symbols, and of no symbol list with another set of symbols
C34_FilenameOfSymbolSet ==
    btm.state # "connected" =>
        \A symbols \in SeqsUpTo(Range(BtmSymbols), MaxSymbols) :
            /\ SamePermuted(symbols, btm.Symbols)
                   => getFilename(symbols) = btm.filename
            /\ Range(symbols) # Range(btm.Symbols)
                   => getFilename(symbols) # btm.filename

\* a file was named for symbols given in descending order
C34_Witness ==
    /\ btm.state = "prepared"
    /\ btm.Symbols = <<"S2", "S1", "S2">>
    /\ btm.filename = getFilename(<<"S1", "S2", "S2">>)

(***************************************************************************)
(* The working price of a replaced order.                                   *)
(***************************************************************************)
\* the replace requests for order id that worker b has accepted
Replacements(b, id) ==
    { i \in DOMAIN b.log : /\ b.log[i].req.name = "OrderReplaceRequestEvent"
                           /\ b.log[i].req.OrdId = id
                           /\ b.log[i].resp[1].name = "OrderReplacedEvent" }

LastReplacement(b, id) ==
    b.log[CHOOSE i \in Replacements(b, id) : \A j \in Replacements(b, id) : j <= i]

\* the fills of order id that worker b has generated since the present state
FillsSince(b, id) == Since(b, "OrderFillEvent", id)

\* order o of worker b0, last replaced by r, when the tick that b0 matches
\* next, giving b1, is no later than the OrderReplaced event
OldPriceUntil(b0, b1, o, r, tick) ==
    (/\ tick.Datetime <= r.resp[1].time
     /\ LimitCrossed([o EXCEPT !.BrokerPrice = r.was.BrokerPrice], tick))
        => \E x \in FillsSince(b1, o.Id) : x.Price = r.was.BrokerPrice

\* the same when the tick is later than the OrderReplaced event
NewPriceFrom(b0, b1, o, r, tick) ==
    tick.Datetime > r.resp[1].time =>
        \A x \in FillsSince(b1, o.Id) :
            x.Price = r.req.NewPrice /\ LimitCrossed([o EXCEPT !.BrokerPrice = r.req.NewPrice], tick)

ReplacedOrders(b) ==
    { id \in DOMAIN b.orders : isActive(b.orders[id]) /\ Replacements(b, id) # {} }

WorksAtOldThenNew(b0, b1, tick) ==
    (~b1.panicked /\ Len(b1.mdlog) = Len(mdlog) + 1) =>
        \A id \in ReplacedOrders(b0) :
            /\ OldPriceUntil(b0, b1, b0.orders[id], LastReplacement(b0, id), tick)
            /\ NewPriceFrom(b0, b1, b0.orders[id], LastReplacement(b0, id), tick)

LimitTickEvents ==
    { NewTickEvent([tick EXCEPT !.Datetime = t]) : tick \in LimitTicks, t \in Times }

\* C35: an order whose replacement was accepted with an OrderReplaced event
\* of time R works at its old price until R and at its new price from R on: a
\* tick no later than R that crosses the old price fills it at the old price,
\* and every fill from a tick later than R is decided and priced with the new
\* price. Checked for the tick that comes next, whatever it is.
C35_OldPriceUntilReplaced ==
    ~panicked =>
        \A e \in LimitTickEvents, ids \in Orderings :
            WorksAtOldThenNew(proceedStoredRequests(Worker, e.time),
                              onTick(Worker, e, ids), e.Tick)

\* the part about the ticks later than the OrderReplaced event, which holds
C35_NewPriceAfterReplaced ==
    ~panicked =>
        \A e \in LimitTickEvents, ids \in Orderings :
            LET b0 == proceedStoredRequests(Worker, e.time)
                b1 == onTick(Worker, e, ids)
            IN  (~b1.panicked /\ Len(b1.mdlog) = Len(mdlog) + 1) =>
                    \A id \in ReplacedOrders(b0) :
                        NewPriceFrom(b0, b1, b0.orders[id], LastReplacement(b0, id), e.Tick)

(***************************************************************************)
(* The order of an order's events in the output of the worker.              *)
(***************************************************************************)
\* in the events evs, an event of kind first for an order comes before an
\* event of kind then for the same order
Follows(evs, first, then) ==
    \E i, j \in DOMAIN evs :
        /\ i < j
        /\ evs[i].name = first
        /\ evs[j].name = then
        /\ evs[i].OrdId = evs[j].OrdId

Lifecycle == {"OrderFillEvent", "OrderCancelEvent", "OrderReplacedEvent"}

Confirmations(evs, id) ==
    { i \in DOMAIN evs : evs[i].name = "OrderConfirmationEvent" /\ evs[i].OrdId = id }

\* C37: the output of the worker holds at most one OrderConfirmation event of
\* an order, and every OrderFill, OrderCancel and OrderReplaced event of the
\* order comes after it.
C37_ConfirmedOnceAndFirst ==
    /\ \A id \in OrderIds : Cardinality(Confirmations(events, id)) <= 1
    /\ \A j \in DOMAIN events :
           events[j].name \in Lifecycle =>
               \E i \in Confirmations(events, events[j].OrdId) : i < j

(***************************************************************************)
(* The pending counter of the strategy runtime.                             *)
(***************************************************************************)
\* the counter is the number of requests sent and not yet answered
CountsRequestsInFlight == waitingN = Len(chEvents)

\* C38: the pending counter is the number of requests sent and not yet
\* answered: it is never negative, it is the number of tokens in the pending
\* map, and it is zero exactly when no request is outstanding.
C38_PendingCounterCountsRequests ==
    /\ CountsRequestsInFlight
    /\ waitingN >= 0
    /\ waitingN = Cardinality(waitingConfirmation)
    /\ waitingN = 0 <=> chEvents = << >>

(***************************************************************************)
(* Requests wait in the arrival queue for the next market-data event.      *)
(***************************************************************************)
\* a step that passes a request to notify appends it to the arrival queue
\* and leaves the orders, the pending events and the output as they are
QueuedOnly ==
    nReq' # nReq =>
        /\ Len(requestEvents') = Len(requestEvents) + 1
        /\ SubSeq(requestEvents', 1, Len(requestEvents)) = requestEvents
        /\ requestEvents'[Len(requestEvents')].name
               \in {"NewOrderEvent", "OrderCancelRequestEvent", "OrderReplaceRequestEvent"}
        /\ UNCHANGED <<orders, generatedEvents, events, log>>

\* every request passed to notify is in the queue or was processed, once,
\* with one response
ProcessedOnce ==
    ~panicked =>
        /\ Len(log) + Len(requestEvents) = nReq
        /\ \A i \in DOMAIN log : Len(log[i].resp) = 1

\* C39: a request passed to notify is only appended to the arrival queue,
\* the orders, the pending events and the output staying as they are until
\* the next market-data event; every request is processed at most once and
\* then yields exactly one response event.
C39_RequestsOnlyQueued == []ProcessedOnce /\ [][QueuedOnly]_vars

\* one request was processed and the next one waits in the queue
C39_Witness ==
    /\ ~panicked
    /\ Len(log) = 1
    /\ Len(log[1].resp) = 1
    /\ Len(requestEvents) = 1
    /\ nReq = MaxRequests

(***************************************************************************)
(* Calls of simBrokerWorker.notify that overlap: one goroutine passes a    *)
(* request, another a tick.  addRequestEvent and proceedStoredRequests      *)
(* read and write b.requestEvents without b.mpMutext; the request handlers  *)
(* and findExecutions take it.  A step is a load or a store of the queue,   *)
(* a Lock, or the body of a function that holds the lock.                   *)
(***************************************************************************)
MaxRaceMd == 2

\* a trade at the price of the limit orders, and a quote
RaceTicks ==
    { Tick(0, 2, 3, NaN, 0, NaN, 0, FALSE, FALSE),
      Tick(0, NaN, 0, 1, 1, 3, 1, FALSE, FALSE) }

OnWorker(b, c) ==
    /\ InstallWorker(b)
    /\ calls' = c
    /\ UNCHANGED <<btm, checkExecutionsOnTicks, delay, strictLimitOrders,
                   strategyVars, runtimeVars>>

\* notify(request), addRequestEvent: the load of b.requestEvents
ReadQueue ==
    \E id \in OrderIds, o \in LimitShapes, t \in ReqTimes :
        /\ ~panicked
        /\ nReq < MaxRequests
        /\ calls.req.pc = "idle"
        /\ OnWorker(Worker,
                    [calls EXCEPT !.req =
                        [pc |-> "append",
                         e |-> NewOrderEvent([o EXCEPT !.Id = id, !.Time = t], t),
                         old |-> requestEvents]])
        /\ UNCHANGED <<nReq, nMd>>

\* addRequestEvent: the store of the slice that append returned
WriteQueue ==
    /\ ~panicked
    /\ calls.req.pc = "append"
    /\ OnWorker(addRequestEvent([Worker EXCEPT !.requestEvents = calls.req.old],
                                calls.req.e),
                [calls EXCEPT !.req = NoCalls.req])
    /\ nReq' = nReq + 1
    /\ UNCHANGED nMd

\* notify(tick), onTick up to the loop of proceedStoredRequests: the checks
\* of the tick, the sort of the queue and the slice that the loop ranges over
StartTick ==
    \E tick \in RaceTicks, t \in Times, ids \in Orderings :
        /\ ~panicked
        /\ nMd < MaxRaceMd
        /\ calls.md.pc = "idle"
        /\ LET e == NewTickEvent([tick EXCEPT !.Datetime = t])
               b == [Worker EXCEPT !.lastTickTime = t]
           IN  IF ~TickIsValid(e.Tick) \/ t < lastTickTime
               THEN OnWorker(onTick(Worker, e, ids), calls)
               ELSE IF Len(requestEvents) = 0
               THEN OnWorker(b, [calls EXCEPT !.md = [pc |-> "find", e |-> e, ids |-> ids,
                                                      es |-> << >>, left |-> << >>]])
               ELSE OnWorker([b EXCEPT !.requestEvents = eventArraySort(@)],
                             [calls EXCEPT !.md = [pc |-> "loop", e |-> e, ids |-> ids,
                                                   es |-> eventArraySort(requestEvents),
                                                   left |-> << >>]])
        /\ nMd' = nMd + 1
        /\ UNCHANGED nReq

\* the loop of proceedStoredRequests, on a request that is not due yet
KeepRequest ==
    /\ ~panicked
    /\ calls.md.pc = "loop"
    /\ calls.md.es # << >>
    /\ ~visible(Worker, Head(calls.md.es), calls.md.e.time)
    /\ OnWorker(Worker, [calls EXCEPT !.md.es = Tail(@),
                                      !.md.left = Append(@, Head(calls.md.es))])
    /\ UNCHANGED <<nReq, nMd>>

\* on a request that is due: b.mpMutext.Lock() of its handler
LockForRequest ==
    /\ ~panicked
    /\ calls.md.pc = "loop"
    /\ calls.md.es # << >>
    /\ visible(Worker, Head(calls.md.es), calls.md.e.time)
    /\ calls.mpMutext = ""
    /\ OnWorker(Worker, [calls EXCEPT !.md.pc = "handle", !.mpMutext = "md"])
    /\ UNCHANGED <<nReq, nMd>>

\* the handler of the request, to its deferred Unlock
HandleRequest ==
    /\ ~panicked
    /\ calls.md.pc = "handle"
    /\ OnWorker(Logged(Worker, dispatchRequest(Worker, Head(calls.md.es)),
                       Head(calls.md.es), calls.md.e.time),
                [calls EXCEPT !.md.pc = "loop", !.md.es = Tail(@), !.mpMutext = ""])
    /\ UNCHANGED <<nReq, nMd>>

\* after the loop: b.requestEvents = eventsLeft
StoreQueue ==
    /\ ~panicked
    /\ calls.md.pc = "loop"
    /\ calls.md.es = << >>
    /\ OnWorker([Worker EXCEPT !.requestEvents = calls.md.left],
                [calls EXCEPT !.md.pc = "find"])
    /\ UNCHANGED <<nReq, nMd>>

\* findExecutions: b.mpMutext.Lock()
LockForExecutions ==
    /\ ~panicked
    /\ calls.md.pc = "find"
    /\ calls.mpMutext = ""
    /\ OnWorker(Worker, [calls EXCEPT !.md.pc = "match", !.mpMutext = "md"])
    /\ UNCHANGED <<nReq, nMd>>

\* findExecutions, to its deferred Unlock
FindExecutions ==
    /\ ~panicked
    /\ calls.md.pc = "match"
    /\ OnWorker(findExecutions(Worker, calls.md.e, calls.md.ids),
                [calls EXCEPT !.md = NoCalls.md, !.mpMutext = ""])
    /\ UNCHANGED <<nReq, nMd>>

NextRace ==
    \/ ReadQueue
    \/ WriteQueue
    \/ StartTick
    \/ KeepRequest
    \/ LockForRequest
    \/ HandleRequest
    \/ StoreQueue
    \/ LockForExecutions
    \/ FindExecutions

InitRace == InitTick /\ ~strictLimitOrders

\* overlapping calls of notify on a worker in a run on ticks
SpecRace == InitRace /\ [][NextRace]_vars

Quiescent == calls.md.pc = "idle" /\ calls.req.pc = "idle"

\* the order map and the pending events are read and written in the
\* handlers of the requests and in findExecutions
LockHeld == calls.md.pc \in {"handle", "match"} => calls.mpMutext = "md"

\* C40: when a call of notify with a request overlaps a call of notify with
\* a tick, no request is lost or processed twice (once the calls have
\* returned, every request passed in is in the arrival queue or was answered,
\* once, with one response), and the order map and the pending events are
\* read and written only while mpMutext is held.
C40_SafeUnderInterleaving ==
    /\ (Quiescent /\ ~panicked) =>
           /\ Len(log) + Len(requestEvents) = nReq
           /\ \A i \in DOMAIN log : Len(log[i].resp) = 1
    /\ LockHeld

=============================================================================
